---------------------------- MODULE Spec2Model ----------------------------
(***************************************************************************)
(* KYT Auditor: the analysis pipeline of KYTOrchestrator                    *)
(* (src/orchestrator/kyt_orchestrator.py) with the services it calls       *)
(* (src/services/search_service.py, src/services/content_safety.py).       *)
(*                                                                         *)
(* Python strings are sequences of one-character strings, so that lower()  *)
(* and the substring test `a in b` are computed and not assumed.  A dict   *)
(* key that is absent is the value Absent.  Python objects that are shared  *)
(* by reference (the run dict and its "stages" dict) live in `heap`.       *)
(***************************************************************************)
EXTENDS Integers, Sequences, FiniteSets, TLC

\* ------------------------------------------------------------------------
\* Bounds of the model
\* ------------------------------------------------------------------------

\* Calls of analyze_transactions made on one orchestrator.
MaxRuns == 2

\* Environment faults (an LLM call, a provider call or a callback raising)
\* injected in one behaviour.
MaxFaults == 2

\* Seconds the wall clock may advance (analysis ids have a resolution of 1 s).
MaxClock == 1

\* ------------------------------------------------------------------------
\* Python values
\* ------------------------------------------------------------------------

\* dict.get(key) of a key that is not there, for the keys whose values are
\* identifiers (id, account_id).
Absent == "<absent>"

\* The same for the keys whose values are strings that are searched
\* (country, the four name fields): no Python string equals it, since a
\* Python string is a sequence of one-character strings.
AbsentStr == << "<absent>" >>

\* A name that cannot be put in a set (a JSON list or object as a name).
Unhashable == << "<unhashable>" >>

\* The value under "amount": a number, nothing, or a value that is not a
\* number (a string in the amount column).
Num(v) == [tag |-> "num", v |-> v]
AbsentAmount == [tag |-> "absent", v |-> 0]
NonNumeric == [tag |-> "str", v |-> 0]

\* str.lower() on one character.
LowerChar(ch) ==
    CASE ch = "A" -> "a" [] ch = "B" -> "b" [] ch = "C" -> "c" [] ch = "D" -> "d"
      [] ch = "E" -> "e" [] ch = "F" -> "f" [] ch = "G" -> "g" [] ch = "H" -> "h"
      [] ch = "I" -> "i" [] ch = "J" -> "j" [] ch = "K" -> "k" [] ch = "L" -> "l"
      [] ch = "M" -> "m" [] ch = "N" -> "n" [] ch = "O" -> "o" [] ch = "P" -> "p"
      [] ch = "Q" -> "q" [] ch = "R" -> "r" [] ch = "S" -> "s" [] ch = "T" -> "t"
      [] ch = "U" -> "u" [] ch = "V" -> "v" [] ch = "W" -> "w" [] ch = "X" -> "x"
      [] ch = "Y" -> "y" [] ch = "Z" -> "z" [] OTHER -> ch

\* str.lower()
Lower(s) == [i \in 1..Len(s) |-> LowerChar(s[i])]

\* The substring test `a in b` of two Python strings.
StrIn(a, b) ==
    \E k \in 0..(Len(b) - Len(a)) : \A i \in 1..Len(a) : b[k + i] = a[i]

\* sum(seq)
RECURSIVE Sum(_)
Sum(seq) == IF seq = <<>> THEN 0 ELSE Head(seq) + Sum(Tail(seq))

\* sep.join(parts)
RECURSIVE Join(_, _)
Join(sep, parts) ==
    IF parts = <<>> THEN <<>>
    ELSE IF Len(parts) = 1 THEN parts[1]
    ELSE parts[1] \o sep \o Join(sep, Tail(parts))

\* min(a, b)
Min(a, b) == IF a <= b THEN a ELSE b

\* The permutations of a finite set, as sequences: the orders in which
\* list(set) may hand out the elements of a set of strings.
RECURSIVE Orders(_)
Orders(S) ==
    IF S = {} THEN {<<>>}
    ELSE UNION {{<<x>> \o rest : rest \in Orders(S \ {x})} : x \in S}

\* ------------------------------------------------------------------------
\* Transactions
\* ------------------------------------------------------------------------

\* A transaction dict.  id and account_id may be Absent, amount AbsentAmount
\* or NonNumeric, country and the names AbsentStr, a name Unhashable.
Txn(id, account, amount, country, sender, receiver, counterparty, beneficiary) ==
    [id |-> id, account_id |-> account, amount |-> amount, country |-> country,
     sender_name |-> sender, receiver_name |-> receiver,
     counterparty |-> counterparty, beneficiary |-> beneficiary]

\* txn.get("amount", 0)
AmountOf(txn) == IF txn.amount.tag = "num" THEN txn.amount.v ELSE 0

\* txn.get("country", "").lower()
CountryOf(txn) == IF txn.country = AbsentStr THEN <<>> ELSE Lower(txn.country)

\* txn.get("account_id", "unknown")
AccountOf(txn) == IF txn.account_id = Absent THEN "unknown" ELSE txn.account_id

\* ------------------------------------------------------------------------
\* KYTOrchestrator._extract_high_risk
\* ------------------------------------------------------------------------

high_risk_countries == << <<"i", "r", "a", "n">>, <<"n", "o", "r", "t", "h", " ", "k", "o", "r", "e", "a">>, <<"s", "y", "r", "i", "a">>, <<"r", "u", "s", "s", "i", "a">> >>

\* The amount rule with the weight ForensicAgent._analyze_transaction_pattern
\* gives the band below 10000 (4 points instead of 5).
AmountRuleWeight4(amount) ==
    IF amount >= 10000 THEN [score |-> 3, reasons |-> << <<"A", "m", "o", "u", "n", "t", " ", ">", "=", " ", "$", "1", "0", ",", "0", "0", "0">> >>]
    ELSE IF 9000 <= amount /\ amount < 10000
         THEN [score |-> 4, reasons |-> << <<"A", "m", "o", "u", "n", "t", " ", "j", "u", "s", "t", " ", "b", "e", "l", "o", "w">> >>]
    ELSE [score |-> 0, reasons |-> <<>>]

\* The amount rule: points and reason.
AmountRule(amount) ==
    IF amount >= 10000 THEN [score |-> 3, reasons |-> << <<"A", "m", "o", "u", "n", "t", " ", ">", "=", " ", "$", "1", "0", ",", "0", "0", "0">> >>]
    ELSE IF 9000 <= amount /\ amount < 10000
         THEN [score |-> 5, reasons |-> << <<"A", "m", "o", "u", "n", "t", " ", "j", "u", "s", "t", " ", "b", "e", "l", "o", "w", " ", "$", "1", "0", ",", "0", "0", "0", " ", "t", "h", "r", "e", "s", "h", "o", "l", "d">> >>]
    ELSE [score |-> 0, reasons |-> <<>>]

\* The round-number rule.
RoundRule(amount) ==
    IF amount > 1000 /\ amount % 1000 = 0
    THEN [score |-> 2, reasons |-> << <<"R", "o", "u", "n", "d", " ", "n", "u", "m", "b", "e", "r", " ", "a", "m", "o", "u", "n", "t">> >>]
    ELSE [score |-> 0, reasons |-> <<>>]

\* The jurisdiction rule.
JurisdictionRule(country) ==
    IF \E i \in 1..Len(high_risk_countries) : StrIn(high_risk_countries[i], country)
    THEN [score |-> 5, reasons |-> << <<"H", "i", "g", "h", "-", "r", "i", "s", "k", " ", "j", "u", "r", "i", "s", "d", "i", "c", "t", "i", "o", "n", ":", " ">> \o country >>]
    ELSE [score |-> 0, reasons |-> <<>>]

\* The rule total of one transaction and its reasons, before the threshold.
RiskOf(txn) ==
    LET a == AmountRule(AmountOf(txn))
        r == RoundRule(AmountOf(txn))
        j == JurisdictionRule(CountryOf(txn))
    IN  [risk_score |-> a.score + r.score + j.score,
         risk_reasons |-> a.reasons \o r.reasons \o j.reasons]

\* The entry with the rule total as it is, not capped at 10.
HighRiskEntryUncapped(txn) ==
    [txn |-> txn, risk_score |-> RiskOf(txn).risk_score,
     risk_reasons |-> RiskOf(txn).risk_reasons]

\* The entry appended for a transaction whose total is >= 5.
HighRiskEntry(txn) ==
    [txn |-> txn, risk_score |-> Min(RiskOf(txn).risk_score, 10),
     risk_reasons |-> RiskOf(txn).risk_reasons]

\* _extract_high_risk(transactions), for numeric amounts.
RECURSIVE extract_high_risk(_)
extract_high_risk(transactions) ==
    IF transactions = <<>> THEN <<>>
    ELSE (IF RiskOf(Head(transactions)).risk_score >= 5
          THEN << HighRiskEntry(Head(transactions)) >> ELSE <<>>)
         \o extract_high_risk(Tail(transactions))

\* Comparing a non-numeric amount with a number raises TypeError.
RulesRaise(transactions) ==
    \E i \in 1..Len(transactions) : transactions[i].amount = NonNumeric

\* ------------------------------------------------------------------------
\* KYTOrchestrator._detect_patterns
\* ------------------------------------------------------------------------

\* The accounts of the batch in order of first appearance (dict order).
RECURSIVE AccountsInOrder(_, _)
AccountsInOrder(transactions, seen) ==
    IF transactions = <<>> THEN <<>>
    ELSE LET a == AccountOf(Head(transactions))
         IN  IF a \in seen THEN AccountsInOrder(Tail(transactions), seen)
             ELSE <<a>> \o AccountsInOrder(Tail(transactions), seen \cup {a})

\* account_transactions[account]
TxnsOfAccount(transactions, account) ==
    SelectSeq(transactions, LAMBDA t : AccountOf(t) = account)

\* The structuring test if two transactions made a group.
IsStructuringFromTwo(txns) ==
    LET amounts == [i \in 1..Len(txns) |-> AmountOf(txns[i])]
    IN  /\ Len(txns) >= 2
        /\ Sum(amounts) > 10000
        /\ \A i \in 1..Len(amounts) : amounts[i] < 10000

\* The structuring test of one account group.
IsStructuring(txns) ==
    LET amounts == [i \in 1..Len(txns) |-> AmountOf(txns[i])]
    IN  /\ Len(txns) >= 3
        /\ Sum(amounts) > 10000
        /\ \A i \in 1..Len(amounts) : amounts[i] < 10000

StructuringPattern(account, txns) ==
    [type |-> "POTENTIAL_STRUCTURING", account |-> account,
     transaction_count |-> Len(txns),
     total_amount |-> Sum([i \in 1..Len(txns) |-> AmountOf(txns[i])]),
     severity |-> "HIGH"]

RECURSIVE PatternsOf(_, _)
PatternsOf(transactions, accounts) ==
    IF accounts = <<>> THEN <<>>
    ELSE LET txns == TxnsOfAccount(transactions, Head(accounts))
         IN  (IF IsStructuring(txns)
              THEN << StructuringPattern(Head(accounts), txns) >> ELSE <<>>)
             \o PatternsOf(transactions, Tail(accounts))

\* _detect_patterns(transactions), for numeric amounts.
detect_patterns(transactions) ==
    PatternsOf(transactions, AccountsInOrder(transactions, {}))

\* ------------------------------------------------------------------------
\* KYTOrchestrator._extract_entities
\* ------------------------------------------------------------------------

\* The values under the four name keys of a transaction, in the order the
\* code adds them.
NamesOf(txn) ==
    SelectSeq(<< txn.sender_name, txn.receiver_name, txn.counterparty, txn.beneficiary >>,
           LAMBDA n : n # AbsentStr)

\* entities.add(x) of a list or a dict raises TypeError.
EntitiesRaise(transactions) ==
    \E i \in 1..Len(transactions) :
        \E j \in 1..Len(NamesOf(transactions[i])) : NamesOf(transactions[i])[j] = Unhashable

\* The set built by _extract_entities.
EntitySet(transactions) ==
    UNION { { NamesOf(transactions[i])[k] : k \in 1..Len(NamesOf(transactions[i])) }
            : i \in 1..Len(transactions) }

\* list(entities): the set in one of its orders.
extract_entities(transactions) == Orders(EntitySet(transactions))

\* ------------------------------------------------------------------------
\* SanctionsSearcher (search_service.py)
\* ------------------------------------------------------------------------

\* One entry of a search result.  Scores are in hundredths.
Match(name, list, score, match_type) ==
    [name |-> name, sanctions_list |-> list, score |-> score,
     match_type |-> match_type, has_error |-> FALSE]

mock_sanctions ==
    << [m |-> Match(<<"A", "C", "M", "E", " ", "S", "h", "e", "l", "l", " ", "C", "o", "r", "p", "o", "r", "a", "t", "i", "o", "n">>, <<"O", "F", "A", "C", " ", "S", "D", "N">>, 95, Absent),
        aliases |-> << <<"A", "C", "M", "E", " ", "H", "o", "l", "d", "i", "n", "g", "s">>, <<"A", "C", "M", "E", " ", "L", "L", "C">> >>],
       [m |-> Match(<<"O", "f", "f", "s", "h", "o", "r", "e", " ", "T", "r", "u", "s", "t", " ", "L", "t", "d">>, <<"O", "F", "A", "C", " ", "S", "D", "N">>, 88, Absent),
        aliases |-> << <<"O", "T", " ", "L", "i", "m", "i", "t", "e", "d">>, <<"O", "f", "f", "s", "h", "o", "r", "e", " ", "H", "o", "l", "d", "i", "n", "g", "s">> >>] >>

\* SanctionsSearcher._mock_search(query)
mock_search(query) ==
    LET hit(s) == \/ StrIn(Lower(query), Lower(s.m.name))
                  \/ \E i \in 1..Len(s.aliases) : StrIn(Lower(query), Lower(s.aliases[i]))
        hits == SelectSeq(mock_sanctions, hit)
    IN  [i \in 1..Len(hits) |-> hits[i].m]

\* What the search backend may answer to one query: it raises, or it
\* returns documents.  A document is (name, sanctions_list, @search.score).
ProviderFails == << [fails |-> TRUE] >>

RemoteDoc(name, list, score) == [fails |-> FALSE, name |-> name, sanctions_list |-> list, score |-> score]

RemoteAnswers(query) ==
    { <<>>,
      << RemoteDoc(query, <<"O", "F", "A", "C", " ", "S", "D", "N">>, 1250) >>,
      << RemoteDoc(AbsentStr, <<"O", "F", "A", "C", " ", "S", "D", "N">>, 300) >> }

\* The loop of search() over the documents the backend returned.
MatchesOfDocs(docs) ==
    [i \in 1..Len(docs) |->
        Match(docs[i].name, docs[i].sanctions_list, docs[i].score,
              IF docs[i].score > 1000 THEN "EXACT" ELSE "FUZZY")]

\* SanctionsSearcher.search(query) when the backend answers `answer`:
\* without a client the mock search; an exception of the backend is printed
\* and gives no matches.
search(client, query, answer) ==
    IF ~client THEN mock_search(query)
    ELSE IF answer = ProviderFails THEN <<>>
    ELSE MatchesOfDocs(answer)

\* ------------------------------------------------------------------------
\* KYTOrchestrator._run_forensic_analysis / _run_compliance_evaluation /
\* _generate_report
\* ------------------------------------------------------------------------

\* What an agent's LLM call does: it raises, or it returns an output text.
LlmRaises == "<raises>"
LlmTexts == {"text-1", "text-2"}

\* The dict returned by the except branch of _run_forensic_analysis.
ForensicError(e) ==
    [error |-> e, raw_output |-> Absent,
     high_risk_transactions |-> <<>>, patterns_detected |-> <<>>]

\* _run_forensic_analysis(transactions) when forensic_agent.analyze does `llm`.
run_forensic_analysis(transactions, llm) ==
    IF llm = LlmRaises THEN ForensicError("agent error")
    ELSE IF RulesRaise(transactions) THEN ForensicError("TypeError")
    ELSE [error |-> Absent, raw_output |-> llm,
          high_risk_transactions |-> extract_high_risk(transactions),
          patterns_detected |-> detect_patterns(transactions)]

\* valid_matches: entries without an error marker and with a name.
valid_matches(matches) ==
    SelectSeq(matches, LAMBDA m : ~m.has_error /\ m.name # AbsentStr /\ m.name # <<>>)

\* The sanctions loop if a failed query ended it: the entities after the
\* first failing one are not screened.
RECURSIVE sanctions_loop_aborting(_, _, _)
sanctions_loop_aborting(client, entities, answers) ==
    IF entities = <<>> THEN <<>>
    ELSE IF client /\ Head(answers) = ProviderFails THEN <<>>
    ELSE valid_matches(search(client, Head(entities), Head(answers)))
         \o sanctions_loop_aborting(client, Tail(entities), Tail(answers))

\* The sanctions loop over the entities; answers[i] is the backend's answer
\* to the query for entities[i].
RECURSIVE sanctions_loop(_, _, _)
sanctions_loop(client, entities, answers) ==
    IF entities = <<>> THEN <<>>
    ELSE valid_matches(search(client, Head(entities), Head(answers)))
         \o sanctions_loop(client, Tail(entities), Tail(answers))

\* _run_compliance_evaluation(transactions, entities) when
\* legal_agent.evaluate does `llm`.
run_compliance_evaluation(client, entities, answers, llm) ==
    IF llm = LlmRaises
    THEN [error |-> "agent error", raw_output |-> Absent,
          sanctions_matches |-> <<>>, compliance_status |-> "ERROR"]
    ELSE LET sanctions_matches == sanctions_loop(client, entities, answers)
         IN  [error |-> Absent, raw_output |-> llm,
              sanctions_matches |-> sanctions_matches,
              compliance_status |->
                  IF sanctions_matches # <<>> THEN "REVIEW_NEEDED" ELSE "PASSED"]

\* _generate_report(...) when report_agent.generate_report does `llm`;
\* current_id is self.current_analysis["id"] at that moment.
generate_report(current_id, llm) ==
    IF llm = LlmRaises
    THEN [error |-> "agent error", raw_output |-> Absent, report_id |-> -1]
    ELSE [error |-> Absent, raw_output |-> llm, report_id |-> current_id]

\* ------------------------------------------------------------------------
\* KYTOrchestrator._prepare_decisions_for_bias_check
\* ------------------------------------------------------------------------

Decision(decision_type, transaction_id, entity, risk_score, reasoning, sanctions_match) ==
    [decision_type |-> decision_type, transaction_id |-> transaction_id,
     entity |-> entity, risk_score |-> risk_score, reasoning |-> reasoning,
     sanctions_match |-> sanctions_match]

\* The decision of one high-risk transaction.
RiskDecision(h) ==
    Decision("RISK_ASSESSMENT", h.txn.id, AbsentStr, h.risk_score,
             Join(<<",", " ">>, h.risk_reasons), FALSE)

\* The decision of one sanctions match.  match.get("sanctions_list", ...)
\* of a key that holds None gives None, printed "None".
MatchDecision(m) ==
    Decision("SANCTIONS_MATCH", Absent, m.name, 0,
             <<"M", "a", "t", "c", "h", "e", "d", " ", "a", "g", "a", "i", "n", "s", "t", " ">> \o
                 (IF m.sanctions_list = AbsentStr THEN <<"N", "o", "n", "e">> ELSE m.sanctions_list),
             TRUE)

NoAlertsDecision ==
    Decision("NO_ALERTS", Absent, AbsentStr, 0, <<"N", "o", " ", "s", "u", "s", "p", "i", "c", "i", "o", "u", "s", " ", "a", "c", "t", "i", "v", "i", "t", "y", " ", "d", "e", "t", "e", "c", "t", "e", "d">>, FALSE)

\* _prepare_decisions_for_bias_check if no NO_ALERTS decision were made.
prepare_decisions_without_fallback(forensic_results, compliance_results) ==
    LET hr == forensic_results.high_risk_transactions
        sm == compliance_results.sanctions_matches
    IN  [i \in 1..Len(hr) |-> RiskDecision(hr[i])]
        \o [i \in 1..Len(sm) |-> MatchDecision(sm[i])]

prepare_decisions_for_bias_check(forensic_results, compliance_results) ==
    LET hr == forensic_results.high_risk_transactions
        sm == compliance_results.sanctions_matches
        decisions == [i \in 1..Len(hr) |-> RiskDecision(hr[i])]
                     \o [i \in 1..Len(sm) |-> MatchDecision(sm[i])]
    IN  IF decisions # <<>> THEN decisions ELSE << NoAlertsDecision >>

\* ------------------------------------------------------------------------
\* ContentSafetyService (content_safety.py)
\* ------------------------------------------------------------------------

\* What the text classification may answer: an error, or a result whose
\* categories all have severity 0 (safe) or not.
SafetyError == [error |-> TRUE, is_safe |-> FALSE]
SafetyResult(is_safe) == [error |-> FALSE, is_safe |-> is_safe]
SafetyAnswers == { SafetyError, SafetyResult(TRUE), SafetyResult(FALSE) }

\* analyze_text(text) when the backend answers `answer`: without a client
\* the mock analysis, which is always safe.
analyze_text(client, answer) == IF ~client THEN SafetyResult(TRUE) ELSE answer

demographic_fields ==
    << <<"n", "a", "t", "i", "o", "n", "a", "l", "i", "t", "y">>, <<"c", "o", "u", "n", "t", "r", "y", "_", "o", "f", "_", "o", "r", "i", "g", "i", "n">>, <<"e", "t", "h", "n", "i", "c", "i", "t", "y">>, <<"r", "e", "l", "i", "g", "i", "o", "n">> >>

Indicator(type, fld, severity) == [type |-> type, field |-> fld, severity |-> severity]

\* _check_kyt_bias_indicators(decision_data)
check_kyt_bias_indicators(decision_data) ==
    LET reasoning == Lower(decision_data.reasoning)
        hits == SelectSeq(demographic_fields, LAMBDA f : StrIn(f, reasoning))
    IN  [i \in 1..Len(hits) |-> Indicator("demographic_factor", hits[i], "medium")]
        \o (IF /\ StrIn(<<"n", "a", "m", "e">>, reasoning)
               /\ \E term \in { <<"f", "o", "r", "e", "i", "g", "n">>, <<"u", "n", "u", "s", "u", "a", "l">>, <<"s", "u", "s", "p", "i", "c", "i", "o", "u", "s", " ", "n", "a", "m", "e">> } :
                      StrIn(term, reasoning)
            THEN << Indicator("name_bias", <<>>, "high") >> ELSE <<>>)
        \o (IF decision_data.risk_score > 8 /\ ~decision_data.sanctions_match
            THEN << Indicator("high_risk_no_match", <<>>, "low") >> ELSE <<>>)

\* sum(1 for i in bias_indicators if i.get("severity") == severity)
SeverityCount(bias_indicators, severity) ==
    Len(SelectSeq(bias_indicators, LAMBDA i : i.severity = severity))

\* _get_overall_bias_assessment if one medium indicator sufficed for
\* CAUTION and the safety classification was looked at first.
get_overall_bias_assessment_reordered(safety_result, bias_indicators) ==
    LET high_severity_count == SeverityCount(bias_indicators, "high")
        medium_severity_count == SeverityCount(bias_indicators, "medium")
        is_safe == IF safety_result.error THEN TRUE ELSE safety_result.is_safe
    IN  [status |-> IF ~is_safe THEN "CONTENT_SAFETY_ISSUE"
                    ELSE IF high_severity_count > 0 THEN "REVIEW_REQUIRED"
                    ELSE IF medium_severity_count > 0 THEN "CAUTION"
                    ELSE "PASSED",
         high_severity_count |-> high_severity_count,
         medium_severity_count |-> medium_severity_count,
         recommendations |->
             { << bias_indicators[i].type, bias_indicators[i].field >>
               : i \in 1..Len(bias_indicators) }]

\* _get_overall_bias_assessment(safety_result, bias_indicators);
\* safety_result.get("is_safe", True) of an error dict is True.
get_overall_bias_assessment(safety_result, bias_indicators) ==
    LET high_severity_count == SeverityCount(bias_indicators, "high")
        medium_severity_count == SeverityCount(bias_indicators, "medium")
        is_safe == IF safety_result.error THEN TRUE ELSE safety_result.is_safe
    IN  [status |-> IF high_severity_count > 0 THEN "REVIEW_REQUIRED"
                    ELSE IF medium_severity_count > 1 THEN "CAUTION"
                    ELSE IF ~is_safe THEN "CONTENT_SAFETY_ISSUE"
                    ELSE "PASSED",
         high_severity_count |-> high_severity_count,
         medium_severity_count |-> medium_severity_count,
         recommendations |->
             { << bias_indicators[i].type, bias_indicators[i].field >>
               : i \in 1..Len(bias_indicators) }]

\* check_decision_bias(decision_data)
check_decision_bias(client, decision_data, answer) ==
    LET safety_result == analyze_text(client, answer)
        bias_indicators == check_kyt_bias_indicators(decision_data)
    IN  [content_safety |-> safety_result,
         bias_indicators |-> bias_indicators,
         overall_assessment |-> get_overall_bias_assessment(safety_result, bias_indicators)]

\* sum(1 for c in all_checks if c["overall_assessment"]["status"] == status)
StatusCount(all_checks, status) ==
    Len(SelectSeq(all_checks, LAMBDA c : c.overall_assessment.status = status))

\* The pass rate if the quotient were cut after two decimals, not rounded.
pass_rate_truncated(passed, total_reviewed) ==
    IF total_reviewed > 0 THEN (passed * 10000) \div total_reviewed ELSE 0

\* round(passed / total_reviewed * 100, 2), in hundredths of a percent
\* (no ties arise below 32 decisions).
pass_rate(passed, total_reviewed) ==
    IF total_reviewed > 0
    THEN (2 * passed * 10000 + total_reviewed) \div (2 * total_reviewed)
    ELSE 0

\* generate_responsible_ai_report(decisions); answers[i] is the backend's
\* answer for decisions[i].  The recommendations are a set: their order in
\* the list is not modelled.
generate_responsible_ai_report(client, decisions, answers) ==
    LET all_checks == [i \in 1..Len(decisions) |->
                          check_decision_bias(client, decisions[i], answers[i])]
        total_reviewed == Len(all_checks)
        passed == StatusCount(all_checks, "PASSED")
    IN  [total_decisions_reviewed |-> total_reviewed,
         summary |-> [passed |-> passed,
                      review_required |-> StatusCount(all_checks, "REVIEW_REQUIRED"),
                      caution |-> StatusCount(all_checks, "CAUTION"),
                      pass_rate |-> pass_rate(passed, total_reviewed)],
         detailed_checks |-> all_checks,
         recommendations |->
             UNION { all_checks[i].overall_assessment.recommendations
                     : i \in 1..Len(all_checks) }]

\* ------------------------------------------------------------------------
\* The run dict, its stages, and the report
\* ------------------------------------------------------------------------

Stages == {"forensic", "compliance", "bias_check", "report"}

\* A stage key that is not in the dict, and the {} that .get(key, {}) gives.
NoStage == [present |-> FALSE]
EmptyDict == [empty |-> TRUE]

\* stages.get(stage, {}).get("results", {})
ResultsOf(stage) == IF stage.present THEN stage.results ELSE EmptyDict
StageResult(results) == [present |-> TRUE, status |-> "COMPLETED", results |-> results]

\* The dict created at the start of analyze_transactions.
NewRun(analysis_id, started_at, transactions) ==
    [id |-> analysis_id, started_at |-> started_at, status |-> "IN_PROGRESS",
     transactions_count |-> Len(transactions),
     stages |-> [s \in Stages |-> NoStage],
     completed_at |-> -1, error |-> Absent]

\* _generate_summary() if structuring patterns did not count for the level.
generate_summary_without_patterns(run) ==
    LET forensic == run.stages["forensic"]
        compliance == run.stages["compliance"]
        bias == run.stages["bias_check"]
        high_risk_count ==
            IF forensic.present THEN Len(forensic.results.high_risk_transactions) ELSE 0
        sanctions_count ==
            IF compliance.present THEN Len(compliance.results.sanctions_matches) ELSE 0
        patterns_count ==
            IF forensic.present THEN Len(forensic.results.patterns_detected) ELSE 0
        overall_risk ==
            IF sanctions_count > 0 THEN "HIGH"
            ELSE IF high_risk_count > 0 THEN "MEDIUM" ELSE "LOW"
    IN  [overall_risk_level |-> overall_risk,
         high_risk_transactions |-> high_risk_count,
         sanctions_matches |-> sanctions_count,
         suspicious_patterns |-> patterns_count,
         compliance_status |->
             IF compliance.present THEN compliance.results.compliance_status
             ELSE "UNKNOWN",
         responsible_ai_status |->
             IF bias.present THEN bias.results.summary.pass_rate ELSE 0,
         requires_manual_review |-> overall_risk \in {"HIGH", "MEDIUM"}]

\* _generate_summary() over the run dict `run`.
generate_summary(run) ==
    LET forensic == run.stages["forensic"]
        compliance == run.stages["compliance"]
        bias == run.stages["bias_check"]
        high_risk_count ==
            IF forensic.present THEN Len(forensic.results.high_risk_transactions) ELSE 0
        sanctions_count ==
            IF compliance.present THEN Len(compliance.results.sanctions_matches) ELSE 0
        patterns_count ==
            IF forensic.present THEN Len(forensic.results.patterns_detected) ELSE 0
        overall_risk ==
            IF sanctions_count > 0 \/ patterns_count > 0 THEN "HIGH"
            ELSE IF high_risk_count > 0 THEN "MEDIUM" ELSE "LOW"
    IN  [overall_risk_level |-> overall_risk,
         high_risk_transactions |-> high_risk_count,
         sanctions_matches |-> sanctions_count,
         suspicious_patterns |-> patterns_count,
         compliance_status |->
             IF compliance.present THEN compliance.results.compliance_status
             ELSE "UNKNOWN",
         responsible_ai_status |->
             IF bias.present THEN bias.results.summary.pass_rate ELSE 0,
         requires_manual_review |-> overall_risk \in {"HIGH", "MEDIUM"}]

\* _compile_final_results() over the run dict `run`.
compile_final_results(run) ==
    [analysis_id |-> run.id,
     status |-> run.status,
     started_at |-> run.started_at,
     completed_at |-> run.completed_at,
     transactions_analyzed |-> run.transactions_count,
     forensic_analysis |-> ResultsOf(run.stages["forensic"]),
     compliance_evaluation |-> ResultsOf(run.stages["compliance"]),
     responsible_ai |-> ResultsOf(run.stages["bias_check"]),
     audit_report |-> ResultsOf(run.stages["report"]),
     summary |-> generate_summary(run)]

\* ------------------------------------------------------------------------
\* Batches the callers submit
\* ------------------------------------------------------------------------

\* The end-to-end batch of the specification: T1 9500 US, T2 50000 Iran.
BatchEndToEnd ==
    << Txn("T1", "A1", Num(9500), <<"U", "S">>, AbsentStr, AbsentStr, AbsentStr, AbsentStr),
       Txn("T2", "A1", Num(50000), <<"I", "r", "a", "n">>, AbsentStr, AbsentStr, AbsentStr, AbsentStr) >>

\* Two parties, one of them on the mock sanctions list.
BatchParties ==
    << Txn("T3", "A2", Num(5000), <<"U", "S">>, <<"J", "o", "h", "n", " ", "D", "o", "e">>, <<"A", "C", "M", "E">>, AbsentStr, AbsentStr) >>

\* A counterparty given as a JSON list.
BatchBadName ==
    << Txn("T4", "A2", Num(9500), <<"U", "S">>, <<"J", "o", "h", "n", " ", "D", "o", "e">>, AbsentStr, Unhashable, AbsentStr) >>

\* An amount that is not a number, beside a transaction just below 10000.
BatchBadAmount ==
    << Txn("T5", "A3", NonNumeric, AbsentStr, AbsentStr, AbsentStr, AbsentStr, AbsentStr),
       Txn("T6", "A3", Num(9500), <<"U", "S">>, AbsentStr, AbsentStr, AbsentStr, <<"O", "f", "f", "s", "h", "o", "r", "e", " ", "T", "r", "u", "s", "t", " ", "L", "t", "d">>) >>

\* Three transactions of one account below 10000 (structuring).
BatchStructuring ==
    << Txn("T7", "A4", Num(9000), AbsentStr, AbsentStr, AbsentStr, AbsentStr, AbsentStr),
       Txn("T8", "A4", Num(8500), AbsentStr, AbsentStr, AbsentStr, AbsentStr, AbsentStr),
       Txn("T9", "A4", Num(9500), AbsentStr, AbsentStr, AbsentStr, AbsentStr, AbsentStr) >>

\* Two parties that are both on the mock sanctions list, in a transaction
\* just below 10000.
BatchListedParties ==
    << Txn("T11", "A5", Num(9500), <<"U", "S">>, <<"A", "C", "M", "E", " ", "H", "o", "l", "d", "i", "n", "g", "s">>, <<"O", "f", "f", "s", "h", "o", "r", "e", " ", "T", "r", "u", "s", "t", " ", "L", "t", "d">>, AbsentStr, AbsentStr) >>

\* A receiver name that is the empty string, beside a sender not on the
\* mock sanctions list.
BatchEmptyName ==
    << Txn("T12", "A6", Num(500), <<"U", "S">>, <<"J", "o", "h", "n", " ", "D", "o", "e">>, <<>>, AbsentStr, AbsentStr) >>

\* Nothing to flag.
BatchClean ==
    << Txn("T10", Absent, AbsentAmount, <<"U", "S">>, <<"J", "o", "h", "n", " ", "D", "o", "e">>, AbsentStr, AbsentStr, AbsentStr) >>

\* ------------------------------------------------------------------------
\* State
\* ------------------------------------------------------------------------

Callers == {1, 2}

VARIABLES
    cfg,                 \* the setting, and which services have a backend
    clock,               \* datetime.utcnow(), in seconds
    heap,                \* the run dicts ever created; a reference is an index
    current_analysis,    \* self.current_analysis: 0 (None) or a reference
    analysis_history,    \* self.analysis_history
    faults,              \* environment faults so far
    pc,                  \* per call: where analyze_transactions stands
    transactions,        \* per call: the argument
    callback,            \* per call: whether a callback was passed
    forensic_results,    \* per call: local variable
    entities,            \* per call: local variable
    answers,             \* per call: the search backend's answers, by entity
    compliance_results,  \* per call: local variable
    bias_check_results,  \* per call: local variable
    report_results,      \* per call: local variable
    exc,                 \* per call: the exception in flight
    returned,            \* per call: the report returned
    my_run,              \* per call: the reference of the run it created
    call,                \* a direct call of one method: its name and arguments
    result               \* what the direct call returned

vars == << cfg, clock, heap, current_analysis, analysis_history, faults, pc,
           transactions, callback, forensic_results, entities, answers,
           compliance_results, bias_check_results, report_results, exc,
           returned, my_run, call, result >>

\* The state of a direct call of one method.
unit == << call, result >>

locals == << transactions, callback, forensic_results, entities, answers,
             compliance_results, bias_check_results, report_results, exc,
             returned, my_run >>

\* A local variable that is not bound.
Unbound == [bound |-> FALSE]

\* No method is called directly.
NoCall == [method |-> "<none>"]

NoDirectCall == call = NoCall /\ result = Unbound

\* The statements of analyze_transactions inside the try block, in order.
Program ==
    << "cb_forensic_start", "run_forensic", "set_forensic", "cb_forensic_done",
       "cb_compliance_start", "extract_entities", "run_compliance", "set_compliance",
       "cb_compliance_done", "cb_bias_start", "run_bias", "set_bias", "cb_bias_done",
       "cb_report_start", "run_report", "set_report", "cb_report_done",
       "set_completed", "set_completed_at", "append_history", "cb_complete",
       "compile" >>

\* The statements `if callback: callback(...)`.
CallbackSites ==
    { "cb_forensic_start", "cb_forensic_done", "cb_compliance_start",
      "cb_compliance_done", "cb_bias_start", "cb_bias_done", "cb_report_start",
      "cb_report_done", "cb_complete" }

\* A call that is not running: never started, returned, or raised.
Resting == {"idle", "returned", "raised"}

IndexOf(label) == CHOOSE i \in 1..Len(Program) : Program[i] = label

\* The first statement from position i on that does something: without a
\* callback the callback sites do nothing.
RECURSIVE From(_, _)
From(i, cb) ==
    IF Program[i] \in CallbackSites /\ ~cb THEN From(i + 1, cb) ELSE Program[i]

\* The statement after `label`.
After(label, cb) == From(IndexOf(label) + 1, cb)

\* The run dict self.current_analysis refers to.
Current == heap[current_analysis]

\* ------------------------------------------------------------------------
\* Initial states
\* ------------------------------------------------------------------------

InitState(c) ==
    /\ cfg = c
    /\ clock = 0
    /\ heap = <<>>
    /\ current_analysis = 0
    /\ analysis_history = <<>>
    /\ faults = 0
    /\ pc = [t \in Callers |-> "idle"]
    /\ transactions = [t \in Callers |-> <<>>]
    /\ callback = [t \in Callers |-> FALSE]
    /\ forensic_results = [t \in Callers |-> Unbound]
    /\ entities = [t \in Callers |-> <<>>]
    /\ answers = [t \in Callers |-> <<>>]
    /\ compliance_results = [t \in Callers |-> Unbound]
    /\ bias_check_results = [t \in Callers |-> Unbound]
    /\ report_results = [t \in Callers |-> Unbound]
    /\ exc = [t \in Callers |-> Absent]
    /\ returned = [t \in Callers |-> Unbound]
    /\ my_run = [t \in Callers |-> 0]

\* The three settings the behaviours are drawn from.  "sequential": one
\* caller, calls one after the other.  "interleaved": two callers on one
\* orchestrator, their statements interleaved, no environment fault.
\* "single": one call, on any batch of the pool.  "twice": one call, and
\* when it has ended a second one by another caller, no environment fault.
Pool ==
    CASE cfg.mode = "sequential" -> {BatchEndToEnd, BatchBadName}
      [] cfg.mode = "interleaved" -> {BatchEndToEnd, BatchBadName}
      [] cfg.mode = "twice" -> {BatchEndToEnd, BatchParties, BatchListedParties, BatchBadName}
      [] cfg.mode = "single" -> {BatchEndToEnd, BatchParties, BatchBadName, BatchBadAmount,
                                 BatchStructuring, BatchClean, BatchListedParties,
                                 BatchEmptyName, <<>>}

Threads ==
    CASE cfg.mode = "interleaved" -> Callers
      [] cfg.mode = "twice" -> IF heap = <<>> THEN {1}
                               ELSE IF pc[1] \in {"returned", "raised"} THEN {2} ELSE {}
      [] OTHER -> {1}

RunsAllowed ==
    CASE cfg.mode = "sequential" -> MaxRuns
      [] cfg.mode = "interleaved" -> Cardinality(Callers)
      [] cfg.mode = "twice" -> Cardinality(Callers)
      [] cfg.mode = "single" -> 1

FaultsAllowed == IF cfg.mode \in {"interleaved", "twice"} THEN 0 ELSE MaxFaults

\* What an LLM call may return.
LlmOutputs == IF cfg.mode = "single" THEN LlmTexts ELSE {"text-1"}

\* Sequential calls; the services as constructed without credentials (no
\* backend: mock search, mock classification).
Init ==
    /\ InitState([mode |-> "sequential", search_client |-> FALSE, safety_client |-> FALSE])
    /\ NoDirectCall

\* Interleaved calls, services without backends.
InitConc ==
    /\ InitState([mode |-> "interleaved", search_client |-> FALSE, safety_client |-> FALSE])
    /\ NoDirectCall

\* One call, with or without backends.
InitRun ==
    /\ \E sc \in BOOLEAN, fc \in BOOLEAN :
           InitState([mode |-> "single", search_client |-> sc, safety_client |-> fc])
    /\ NoDirectCall

\* Two calls one after the other, with or without a search backend.
InitTwice ==
    /\ \E sc \in BOOLEAN :
           InitState([mode |-> "twice", search_client |-> sc, safety_client |-> FALSE])
    /\ NoDirectCall

\* ------------------------------------------------------------------------
\* The environment
\* ------------------------------------------------------------------------

\* Faults the environment may still inject.
FaultsLeft == FaultsAllowed - faults

\* What an LLM call may do now.
LlmChoices == LlmOutputs \cup (IF FaultsLeft > 0 THEN {LlmRaises} ELSE {})

\* The number of positions of seq that hold x.
CountOf(seq, x) == Cardinality({i \in 1..Len(seq) : seq[i] = x})

\* The search backend's answers to the queries for es, one per entity.
\* Without a client (or when the loop is not reached) nothing is asked.
SearchAnswers(es, asked) ==
    IF ~asked THEN { [i \in 1..Len(es) |-> <<>>] }
    ELSE LET all == UNION { RemoteAnswers(es[i]) : i \in 1..Len(es) } \cup {ProviderFails}
         IN  { a \in [1..Len(es) -> all] :
                 /\ \A i \in 1..Len(es) : a[i] \in RemoteAnswers(es[i]) \cup {ProviderFails}
                 /\ CountOf(a, ProviderFails) <= FaultsLeft }

\* The classification backend's answers, one per decision.
ClassifierAnswers(decisions, asked) ==
    IF ~asked THEN { [i \in 1..Len(decisions) |-> SafetyResult(TRUE)] }
    ELSE { a \in [1..Len(decisions) -> SafetyAnswers] : CountOf(a, SafetyError) <= FaultsLeft }

\* ------------------------------------------------------------------------
\* analyze_transactions, statement by statement
\* ------------------------------------------------------------------------

\* Lines 48-56: the id, and self.current_analysis = {...}.  The clock may
\* have advanced since the last call.
Start(t) ==
    /\ t \in Threads
    /\ pc[t] \in Resting
    /\ Len(heap) < RunsAllowed
    /\ \E batch \in Pool, cb \in BOOLEAN, now \in clock..MaxClock :
        /\ clock' = now
        /\ heap' = Append(heap, NewRun(now, now, batch))
        /\ current_analysis' = Len(heap) + 1
        /\ my_run' = [my_run EXCEPT ![t] = Len(heap) + 1]
        /\ transactions' = [transactions EXCEPT ![t] = batch]
        /\ callback' = [callback EXCEPT ![t] = cb]
        /\ pc' = [pc EXCEPT ![t] = From(1, cb)]
    /\ forensic_results' = [forensic_results EXCEPT ![t] = Unbound]
    /\ entities' = [entities EXCEPT ![t] = <<>>]
    /\ answers' = [answers EXCEPT ![t] = <<>>]
    /\ compliance_results' = [compliance_results EXCEPT ![t] = Unbound]
    /\ bias_check_results' = [bias_check_results EXCEPT ![t] = Unbound]
    /\ report_results' = [report_results EXCEPT ![t] = Unbound]
    /\ exc' = [exc EXCEPT ![t] = Absent]
    /\ returned' = [returned EXCEPT ![t] = Unbound]
    /\ UNCHANGED << unit, cfg, analysis_history, faults >>

\* `if callback: callback(message, progress)`: the callback returns, or it
\* raises and control passes to the except clause.
Callback(t) ==
    /\ pc[t] \in CallbackSites
    /\ \E raises \in (IF FaultsLeft > 0 THEN BOOLEAN ELSE {FALSE}) :
        /\ pc' = [pc EXCEPT ![t] = IF raises THEN "except" ELSE After(pc[t], callback[t])]
        /\ exc' = [exc EXCEPT ![t] = IF raises THEN "callback error" ELSE exc[t]]
        /\ faults' = IF raises THEN faults + 1 ELSE faults
    /\ UNCHANGED << unit, cfg, clock, heap, current_analysis, analysis_history,
                    transactions, callback, forensic_results, entities, answers,
                    compliance_results, bias_check_results, report_results,
                    returned, my_run >>

\* Line 63: forensic_results = self._run_forensic_analysis(transactions)
RunForensic(t) ==
    /\ pc[t] = "run_forensic"
    /\ \E llm \in LlmChoices :
        /\ forensic_results' = [forensic_results EXCEPT
                                   ![t] = run_forensic_analysis(transactions[t], llm)]
        /\ faults' = IF llm = LlmRaises THEN faults + 1 ELSE faults
    /\ pc' = [pc EXCEPT ![t] = After(pc[t], callback[t])]
    /\ UNCHANGED << unit, cfg, clock, heap, current_analysis, analysis_history,
                    transactions, callback, entities, answers, compliance_results,
                    bias_check_results, report_results, exc, returned, my_run >>

\* StageOf with the keys of the second and the third stage exchanged.
StageOfExchanged(label) ==
    CASE label = "set_forensic" -> "forensic"
      [] label = "set_compliance" -> "bias_check"
      [] label = "set_bias" -> "compliance"
      [] label = "set_report" -> "report"

\* The key of "stages" a statement writes.
StageOf(label) ==
    CASE label = "set_forensic" -> "forensic"
      [] label = "set_compliance" -> "compliance"
      [] label = "set_bias" -> "bias_check"
      [] label = "set_report" -> "report"

\* The local variable a stage's result is taken from.
LocalOf(label, t) ==
    CASE label = "set_forensic" -> forensic_results[t]
      [] label = "set_compliance" -> compliance_results[t]
      [] label = "set_bias" -> bias_check_results[t]
      [] label = "set_report" -> report_results[t]

\* self.current_analysis["stages"][stage] = {...} on the run dict `run`.
set_stage(run, stage, results) ==
    [run EXCEPT !.stages[stage] = StageResult(results)]

\* Lines 64, 79, 95, 110: self.current_analysis["stages"][...] = {"status":
\* "COMPLETED", "results": ...}
SetStage(t) ==
    /\ pc[t] \in {"set_forensic", "set_compliance", "set_bias", "set_report"}
    /\ heap' = [heap EXCEPT ![current_analysis] =
                   set_stage(Current, StageOf(pc[t]), LocalOf(pc[t], t))]
    /\ pc' = [pc EXCEPT ![t] = After(pc[t], callback[t])]
    /\ UNCHANGED << unit, cfg, clock, current_analysis, analysis_history, faults, locals >>

\* Line 77: entities = self._extract_entities(transactions); it is outside
\* the try blocks of the stages.
ExtractEntities(t) ==
    /\ pc[t] = "extract_entities"
    /\ IF EntitiesRaise(transactions[t])
       THEN /\ pc' = [pc EXCEPT ![t] = "except"]
            /\ exc' = [exc EXCEPT ![t] = "TypeError"]
            /\ UNCHANGED entities
       ELSE /\ \E es \in extract_entities(transactions[t]) :
                    entities' = [entities EXCEPT ![t] = es]
            /\ pc' = [pc EXCEPT ![t] = After(pc[t], callback[t])]
            /\ UNCHANGED exc
    /\ UNCHANGED << unit, cfg, clock, heap, current_analysis, analysis_history, faults,
                    transactions, callback, forensic_results, answers,
                    compliance_results, bias_check_results, report_results,
                    returned, my_run >>

\* Line 78: compliance_results = self._run_compliance_evaluation(...)
RunCompliance(t) ==
    /\ pc[t] = "run_compliance"
    /\ \E llm \in LlmChoices :
       \E a \in SearchAnswers(entities[t], cfg.search_client /\ llm # LlmRaises) :
        /\ CountOf(a, ProviderFails) + (IF llm = LlmRaises THEN 1 ELSE 0) <= FaultsLeft
        /\ faults' = faults + CountOf(a, ProviderFails) + (IF llm = LlmRaises THEN 1 ELSE 0)
        /\ answers' = [answers EXCEPT ![t] = a]
        /\ compliance_results' = [compliance_results EXCEPT ![t] =
               run_compliance_evaluation(cfg.search_client, entities[t], a, llm)]
    /\ pc' = [pc EXCEPT ![t] = After(pc[t], callback[t])]
    /\ UNCHANGED << unit, cfg, clock, heap, current_analysis, analysis_history,
                    transactions, callback, forensic_results, entities,
                    bias_check_results, report_results, exc, returned, my_run >>

\* Lines 91-94: decisions = self._prepare_decisions_for_bias_check(...);
\* bias_check_results = self.content_safety.generate_responsible_ai_report(decisions)
RunBias(t) ==
    /\ pc[t] = "run_bias"
    /\ LET decisions == prepare_decisions_for_bias_check(forensic_results[t],
                                                         compliance_results[t])
       IN  \E a \in ClassifierAnswers(decisions, cfg.safety_client) :
            /\ faults' = faults + (IF cfg.safety_client THEN CountOf(a, SafetyError) ELSE 0)
            /\ bias_check_results' = [bias_check_results EXCEPT ![t] =
                   generate_responsible_ai_report(cfg.safety_client, decisions, a)]
    /\ pc' = [pc EXCEPT ![t] = After(pc[t], callback[t])]
    /\ UNCHANGED << unit, cfg, clock, heap, current_analysis, analysis_history,
                    transactions, callback, forensic_results, entities, answers,
                    compliance_results, report_results, exc, returned, my_run >>

\* Line 107: report_results = self._generate_report(...), which reads
\* self.current_analysis["id"].
RunReport(t) ==
    /\ pc[t] = "run_report"
    /\ \E llm \in LlmChoices :
        /\ report_results' = [report_results EXCEPT ![t] = generate_report(Current.id, llm)]
        /\ faults' = IF llm = LlmRaises THEN faults + 1 ELSE faults
    /\ pc' = [pc EXCEPT ![t] = After(pc[t], callback[t])]
    /\ UNCHANGED << unit, cfg, clock, heap, current_analysis, analysis_history,
                    transactions, callback, forensic_results, entities, answers,
                    compliance_results, bias_check_results, exc, returned, my_run >>

\* Line 119: self.current_analysis["status"] = "COMPLETED"
set_completed(run) == [run EXCEPT !.status = "COMPLETED"]

SetCompleted(t) ==
    /\ pc[t] = "set_completed"
    /\ heap' = [heap EXCEPT ![current_analysis] = set_completed(Current)]
    /\ pc' = [pc EXCEPT ![t] = After(pc[t], callback[t])]
    /\ UNCHANGED << unit, cfg, clock, current_analysis, analysis_history, faults, locals >>

\* Line 120: self.current_analysis["completed_at"] = datetime.utcnow().isoformat()
SetCompletedAt(t) ==
    /\ pc[t] = "set_completed_at"
    /\ heap' = [heap EXCEPT ![current_analysis].completed_at = clock]
    /\ pc' = [pc EXCEPT ![t] = After(pc[t], callback[t])]
    /\ UNCHANGED << unit, cfg, clock, current_analysis, analysis_history, faults, locals >>

\* dict.copy() of the run dict at reference ref: a new dict with the same
\* values; the "stages" dict is not copied, the copy refers to the same one.
shallow_copy(ref) ==
    [id |-> heap[ref].id, started_at |-> heap[ref].started_at,
     status |-> heap[ref].status,
     transactions_count |-> heap[ref].transactions_count,
     completed_at |-> heap[ref].completed_at, error |-> heap[ref].error,
     stages_ref |-> ref]

\* What line 123 does to the history.
append_to_history(history, ref) == Append(history, shallow_copy(ref))

\* Line 123: self.analysis_history.append(self.current_analysis.copy())
AppendHistory(t) ==
    /\ pc[t] = "append_history"
    /\ analysis_history' = append_to_history(analysis_history, current_analysis)
    /\ pc' = [pc EXCEPT ![t] = After(pc[t], callback[t])]
    /\ UNCHANGED << unit, cfg, clock, heap, current_analysis, faults, locals >>

\* Line 128: return self._compile_final_results()
Compile(t) ==
    /\ pc[t] = "compile"
    /\ returned' = [returned EXCEPT ![t] = compile_final_results(Current)]
    /\ pc' = [pc EXCEPT ![t] = "returned"]
    /\ UNCHANGED << unit, cfg, clock, heap, current_analysis, analysis_history, faults,
                    transactions, callback, forensic_results, entities, answers,
                    compliance_results, bias_check_results, report_results, exc,
                    my_run >>

\* What the except clause does to the history (lines 130-133 do not touch it).
history_on_failure(history, ref) == history

\* Lines 130-133: except Exception as e: status = "FAILED", error = str(e); raise
Except(t) ==
    /\ pc[t] = "except"
    /\ heap' = [heap EXCEPT ![current_analysis].status = "FAILED",
                            ![current_analysis].error = exc[t]]
    /\ analysis_history' = history_on_failure(analysis_history, current_analysis)
    /\ pc' = [pc EXCEPT ![t] = "raised"]
    /\ UNCHANGED << unit, cfg, clock, current_analysis, faults, locals >>

Next ==
    \E t \in Callers :
        \/ Start(t)
        \/ Callback(t)
        \/ RunForensic(t)
        \/ SetStage(t)
        \/ ExtractEntities(t)
        \/ RunCompliance(t)
        \/ RunBias(t)
        \/ RunReport(t)
        \/ SetCompleted(t)
        \/ SetCompletedAt(t)
        \/ AppendHistory(t)
        \/ Compile(t)
        \/ Except(t)

\* Sequential calls on one orchestrator.
Spec == Init /\ [][Next]_vars

\* Interleaved calls on one orchestrator.
SpecConc == InitConc /\ [][Next]_vars

\* One call, every batch of the pool, every configuration of the services.
SpecRun == InitRun /\ [][Next]_vars

\* A call and, after it, a second call by another caller.
SpecTwice == InitTwice /\ [][Next]_vars

\* ------------------------------------------------------------------------
\* Direct calls of single methods
\* ------------------------------------------------------------------------

\* The amounts the direct calls are made with: the band around the 10000
\* threshold, and amounts on both sides of every other threshold.
UnitAmounts ==
    (8995..10005) \cup {0, 500, 1000, 1001, 2000, 3000, 12000, 49000, 50000, 50001, 51000, 60000}

\* ForensicAgent._analyze_transaction_pattern on a transaction with the
\* given "amount": the result dict, or the error dict of the except clause.
analyze_transaction_pattern(amount) ==
    IF amount.tag = "str" THEN [error |-> TRUE, risk_score |-> 0, requires_review |-> FALSE]
    ELSE LET a == IF amount.tag = "num" THEN amount.v ELSE 0
             risk_score == (IF a > 1000 /\ a % 1000 = 0 THEN 2 ELSE 0)
                           + (IF 9000 <= a /\ a < 10000 THEN 4 ELSE 0)
                           + (IF a > 50000 THEN 3 ELSE 0)
         IN  [error |-> FALSE,
              risk_score |-> Min(risk_score, 10),
              requires_review |-> risk_score >= 5]

\* The direct calls of _analyze_transaction_pattern.
AnalyzePatternCalls ==
    { [method |-> "_analyze_transaction_pattern", amount |-> a] :
        a \in {Num(v) : v \in UnitAmounts} \cup {AbsentAmount, NonNumeric} }

AnalyzeTransactionPattern ==
    /\ call.method = "_analyze_transaction_pattern"
    /\ result = Unbound
    /\ result' = analyze_transaction_pattern(call.amount)
    /\ UNCHANGED << call, cfg, clock, heap, current_analysis, analysis_history, faults,
                    pc, locals >>

\* The longest batch a direct call is made with.
MaxBatchLen == 4

\* The transactions of those batches: with an account and without one,
\* amounts on both sides of 10000 and no amount.
UnitTxns ==
    { Txn("T", account, amount, AbsentStr, AbsentStr, AbsentStr, AbsentStr, AbsentStr) :
        account \in {"A1", Absent},
        amount \in {Num(9000), Num(8500), Num(9500), Num(12000), AbsentAmount} }

\* The direct calls of _detect_patterns.
DetectPatternsCalls ==
    { [method |-> "_detect_patterns", transactions |-> b] :
        b \in UNION { [1..n -> UnitTxns] : n \in 0..MaxBatchLen } }

DetectPatterns ==
    /\ call.method = "_detect_patterns"
    /\ result = Unbound
    /\ result' = [patterns |-> detect_patterns(call.transactions)]
    /\ UNCHANGED << call, cfg, clock, heap, current_analysis, analysis_history, faults,
                    pc, locals >>

\* The reasoning texts the direct calls of check_decision_bias are made
\* with: no demographic term, one, two, a name remark, and a name remark
\* with two demographic terms.
UnitReasonings ==
    { <<"M", "u", "l", "t", "i", "p", "l", "e", " ", "t", "r", "a", "n", "s", "a", "c", "t", "i", "o", "n", "s", " ", "b", "e", "l", "o", "w", " ", "t", "h", "r", "e", "s", "h", "o", "l", "d">>,
      <<"F", "l", "a", "g", "g", "e", "d", " ", "d", "u", "e", " ", "t", "o", " ", "N", "a", "t", "i", "o", "n", "a", "l", "i", "t", "y">>,
      <<"F", "l", "a", "g", "g", "e", "d", " ", "d", "u", "e", " ", "t", "o", " ", "n", "a", "t", "i", "o", "n", "a", "l", "i", "t", "y", " ", "a", "n", "d", " ", "r", "e", "l", "i", "g", "i", "o", "n">>,
      <<"U", "n", "u", "s", "u", "a", "l", " ", "n", "a", "m", "e">>,
      <<"F", "o", "r", "e", "i", "g", "n", " ", "n", "a", "m", "e", ",", " ", "e", "t", "h", "n", "i", "c", "i", "t", "y", " ", "a", "n", "d", " ", "r", "e", "l", "i", "g", "i", "o", "n">> }

\* The direct calls of check_decision_bias: the decision, whether the
\* service has a client, and the backend's answer.
CheckDecisionBiasCalls ==
    { [method |-> "check_decision_bias",
       decision |-> Decision("RISK_ASSESSMENT", "T1", AbsentStr, score, reasoning, matched),
       client |-> client, answer |-> answer] :
        score \in {5, 9}, reasoning \in UnitReasonings, matched \in BOOLEAN,
        client \in BOOLEAN, answer \in SafetyAnswers }

CheckDecisionBias ==
    /\ call.method = "check_decision_bias"
    /\ result = Unbound
    /\ result' = check_decision_bias(call.client, call.decision, call.answer)
    /\ UNCHANGED << call, cfg, clock, heap, current_analysis, analysis_history, faults,
                    pc, locals >>

\* The longest batch of decisions a direct call of
\* generate_responsible_ai_report is made with, the large batch apart.
MaxDecisions == 3

\* Decisions whose check passes, gives CAUTION (two demographic terms) and
\* gives REVIEW_REQUIRED (a name remark), the classification permitting.
UnitDecisions ==
    { Decision("RISK_ASSESSMENT", "T1", AbsentStr, 5, reasoning, FALSE) :
        reasoning \in { <<"A", "m", "o", "u", "n", "t", " ", "j", "u", "s", "t", " ", "b", "e", "l", "o", "w", " ", "$", "1", "0", ",", "0", "0", "0", " ", "t", "h", "r", "e", "s", "h", "o", "l", "d">>,
                        <<"H", "i", "g", "h", "-", "r", "i", "s", "k", " ", "j", "u", "r", "i", "s", "d", "i", "c", "t", "i", "o", "n", ":", " ", "i", "r", "a", "n", " ", "n", "a", "t", "i", "o", "n", "a", "l", "i", "t", "y", " ", "r", "e", "l", "i", "g", "i", "o", "n">>,
                        <<"U", "n", "u", "s", "u", "a", "l", " ", "n", "a", "m", "e">> } }

\* A batch of 20001 decisions of which the last alone does not pass.
LargeBatch ==
    [i \in 1..20001 |->
        Decision("RISK_ASSESSMENT", "T1", AbsentStr, 5,
                 IF i <= 20000 THEN <<"A", "m", "o", "u", "n", "t", " ", "j", "u", "s", "t", " ", "b", "e", "l", "o", "w", " ", "$", "1", "0", ",", "0", "0", "0", " ", "t", "h", "r", "e", "s", "h", "o", "l", "d">>
                 ELSE <<"H", "i", "g", "h", "-", "r", "i", "s", "k", " ", "j", "u", "r", "i", "s", "d", "i", "c", "t", "i", "o", "n", ":", " ", "i", "r", "a", "n", " ", "n", "a", "t", "i", "o", "n", "a", "l", "i", "t", "y", " ", "r", "e", "l", "i", "g", "i", "o", "n">>,
                 FALSE)]

\* The direct calls of generate_responsible_ai_report: the decisions,
\* whether the service has a client, and the backend's answer per decision.
ResponsibleAiReportCalls ==
    { [method |-> "generate_responsible_ai_report",
       decisions |-> c.decisions, client |-> TRUE, answers |-> c.answers] :
        c \in UNION { [decisions : [1..n -> UnitDecisions],
                       answers : [1..n -> {SafetyResult(TRUE), SafetyResult(FALSE)}]]
                      : n \in 0..MaxDecisions } }
    \cup
    { [method |-> "generate_responsible_ai_report",
       decisions |-> LargeBatch, client |-> FALSE,
       answers |-> [i \in 1..Len(LargeBatch) |-> SafetyResult(TRUE)]] }

GenerateResponsibleAiReport ==
    /\ call.method = "generate_responsible_ai_report"
    /\ result = Unbound
    /\ result' = generate_responsible_ai_report(call.client, call.decisions, call.answers)
    /\ UNCHANGED << call, cfg, clock, heap, current_analysis, analysis_history, faults,
                    pc, locals >>

\* ------------------------------------------------------------------------
\* LegalAgent._check_jurisdiction_risk
\* ------------------------------------------------------------------------

high_risk == << <<"i", "r">>, <<"k", "p">>, <<"s", "y">>, <<"i", "r", "a", "n">>, <<"n", "o", "r", "t", "h", " ", "k", "o", "r", "e", "a">>, <<"s", "y", "r", "i", "a">> >>

medium_risk == << <<"r", "u">>, <<"b", "y">>, <<"r", "u", "s", "s", "i", "a">>, <<"b", "e", "l", "a", "r", "u", "s">>, <<"c", "a", "y", "m", "a", "n", " ", "i", "s", "l", "a", "n", "d", "s">>, <<"p", "a", "n", "a", "m", "a">> >>

\* The rule with the two tests exchanged.
check_jurisdiction_risk_medium_first(jurisdiction) ==
    LET jurisdiction_lower == Lower(jurisdiction)
    IN  [jurisdiction |-> jurisdiction,
         risk_level |->
            IF \E i \in 1..Len(medium_risk) : StrIn(medium_risk[i], jurisdiction_lower)
            THEN "MEDIUM"
            ELSE IF \E i \in 1..Len(high_risk) : StrIn(high_risk[i], jurisdiction_lower)
            THEN "HIGH"
            ELSE "LOW"]

\* The object _check_jurisdiction_risk returns as JSON text (details, a
\* fixed text per level, is left out).
check_jurisdiction_risk(jurisdiction) ==
    LET jurisdiction_lower == Lower(jurisdiction)
    IN  [jurisdiction |-> jurisdiction,
         risk_level |->
            IF \E i \in 1..Len(high_risk) : StrIn(high_risk[i], jurisdiction_lower)
            THEN "HIGH"
            ELSE IF \E i \in 1..Len(medium_risk) : StrIn(medium_risk[i], jurisdiction_lower)
            THEN "MEDIUM"
            ELSE "LOW"]

\* The jurisdictions _check_jurisdiction_risk is called with: codes and
\* names of both lists in several spellings, names that hold a code inside
\* another word, names that hold terms of both lists, and names of neither.
UnitJurisdictions ==
    { <<"I", "r", "a", "n">>, <<"I", "R", "A", "N">>, <<"i", "r", "a", "n">>, <<"I", "R">>, <<"K", "P">>, <<"s", "y">>, <<"N", "o", "r", "t", "h", " ", "K", "o", "r", "e", "a">>, <<"S", "y", "r", "i", "a">>,
      <<"R", "U">>, <<"b", "y">>, <<"R", "u", "s", "s", "i", "a">>, <<"B", "E", "L", "A", "R", "U", "S">>, <<"C", "a", "y", "m", "a", "n", " ", "I", "s", "l", "a", "n", "d", "s">>, <<"P", "a", "n", "a", "m", "a">>,
      <<"U", "n", "i", "t", "e", "d", " ", "S", "t", "a", "t", "e", "s">>, <<"U", "S">>, <<"G", "e", "r", "m", "a", "n", "y">>, <<"F", "r", "a", "n", "c", "e">>, <<>>,
      <<"I", "r", "e", "l", "a", "n", "d">>, <<"P", "e", "r", "u">>, <<"L", "i", "b", "y", "a">>, <<"C", "y", "p", "r", "u", "s">>, <<"V", "i", "r", "g", "i", "n", " ", "I", "s", "l", "a", "n", "d", "s">>,
      <<"S", "y", "r", "i", "a", " ", "v", "i", "a", " ", "R", "u", "s", "s", "i", "a">>, <<"P", "a", "n", "a", "m", "a", ",", " ", "I", "r", "a", "n">>, <<"B", "e", "l", "a", "r", "u", "s", "/", "K", "P">>, <<"R", "u", "s", "s", "i", "a">> \o <<" ", "(", "I", "R", ")">> }

CheckJurisdictionRiskCalls ==
    { [method |-> "check_jurisdiction_risk", jurisdiction |-> j] : j \in UnitJurisdictions }

CheckJurisdictionRisk ==
    /\ call.method = "check_jurisdiction_risk"
    /\ result = Unbound
    /\ result' = check_jurisdiction_risk(call.jurisdiction)
    /\ UNCHANGED << call, cfg, clock, heap, current_analysis, analysis_history, faults,
                    pc, locals >>

\* ------------------------------------------------------------------------
\* LegalAgent._determine_reporting_requirements
\* ------------------------------------------------------------------------

\* A requirement of the list reporting_requirements (the reason, a fixed
\* text per report type, is left out).
Requirement(report_type, regulation, deadline) ==
    [report_type |-> report_type, regulation |-> regulation, deadline |-> deadline]

\* transaction.get("type", "").lower()
TypeOf(transaction) ==
    IF transaction.type = AbsentStr THEN <<>> ELSE Lower(transaction.type)

\* transaction.get("suspicious", False)
SuspiciousOf(transaction) == transaction.suspicious = "True"

\* The rule with the CTR test on the amount alone.
determine_reporting_requirements_any_type(transaction) ==
    LET amount == AmountOf(transaction)
        ctr == IF amount >= 10000
               THEN << Requirement("CTR", "31 CFR 1010.311", "15 days") >> ELSE <<>>
        sar == IF SuspiciousOf(transaction) \/ amount >= 5000
               THEN << Requirement("SAR", "31 CFR 1020.320", "30 days") >> ELSE <<>>
    IN  [transaction_id |-> transaction.id,
         reporting_requirements |-> ctr \o sar,
         requires_action |-> Len(ctr \o sar) > 0]

\* The object _determine_reporting_requirements returns as JSON text, for
\* a transaction whose amount is a number or missing and whose type is a
\* string or missing.
determine_reporting_requirements(transaction) ==
    LET amount == AmountOf(transaction)
        transaction_type == TypeOf(transaction)
        ctr == IF amount >= 10000 /\ StrIn(<<"c", "a", "s", "h">>, transaction_type)
               THEN << Requirement("CTR", "31 CFR 1010.311", "15 days") >> ELSE <<>>
        sar == IF SuspiciousOf(transaction) \/ amount >= 5000
               THEN << Requirement("SAR", "31 CFR 1020.320", "30 days") >> ELSE <<>>
    IN  [transaction_id |-> transaction.id,
         reporting_requirements |-> ctr \o sar,
         requires_action |-> Len(ctr \o sar) > 0]

\* The transactions _determine_reporting_requirements is called with:
\* amounts around both thresholds or missing, types that do and do not
\* name cash or are missing, the suspicious flag true, false or missing.
UnitReportingTxns ==
    [id : {"TXN001"},
     amount : { Num(v) : v \in {0, 4999, 5000, 5001, 9999, 10000, 10001, 15000} }
              \cup {AbsentAmount},
     type : { <<"c", "a", "s", "h">>, <<"c", "a", "s", "h", "_", "d", "e", "p", "o", "s", "i", "t">>, <<"C", "A", "S", "H">>, <<"C", "a", "s", "h", " ", "W", "i", "t", "h", "d", "r", "a", "w", "a", "l">>, <<"c", "a", "s", "h", "i", "e", "r", "_", "c", "h", "e", "c", "k">>,
              <<"w", "i", "r", "e">>, <<"c", "a", "s">>, <<>>, AbsentStr },
     suspicious : {"True", "False", Absent}]

DetermineReportingCalls ==
    { [method |-> "determine_reporting_requirements", transaction |-> txn] :
        txn \in UnitReportingTxns }

DetermineReportingRequirements ==
    /\ call.method = "determine_reporting_requirements"
    /\ result = Unbound
    /\ result' = determine_reporting_requirements(call.transaction)
    /\ UNCHANGED << call, cfg, clock, heap, current_analysis, analysis_history, faults,
                    pc, locals >>

\* The longest batch a direct call of _extract_high_risk is made with.
MaxScoredLen == 2

\* The transactions _extract_high_risk is called with: amounts at the
\* edges of the amount rules or missing, countries on and off the list.
UnitScoredTxns ==
    { Txn("T1", "A1", a, c, AbsentStr, AbsentStr, AbsentStr, AbsentStr) :
        a \in { Num(v) : v \in {1000, 2000, 8999, 9000, 9999, 10000, 50000} }
              \cup {AbsentAmount},
        c \in { <<"U", "S">>, <<"I", "r", "a", "n">>, <<"N", "o", "r", "t", "h", " ", "K", "o", "r", "e", "a">>, AbsentStr } }

ExtractHighRiskCalls ==
    { [method |-> "_extract_high_risk", transactions |-> txns] :
        txns \in UNION { [1..n -> UnitScoredTxns] : n \in 0..MaxScoredLen } }

ExtractHighRisk ==
    /\ call.method = "_extract_high_risk"
    /\ result = Unbound
    /\ result' = [high_risk_transactions |-> extract_high_risk(call.transactions)]
    /\ UNCHANGED << call, cfg, clock, heap, current_analysis, analysis_history, faults,
                    pc, locals >>

\* A service or agent object on which one method is called directly.
InitUnit ==
    /\ InitState([mode |-> "unit", search_client |-> FALSE, safety_client |-> FALSE])
    /\ result = Unbound
    /\ \/ call \in AnalyzePatternCalls
       \/ call \in DetectPatternsCalls
       \/ call \in CheckDecisionBiasCalls
       \/ call \in ResponsibleAiReportCalls
       \/ call \in CheckJurisdictionRiskCalls
       \/ call \in DetermineReportingCalls
       \/ call \in ExtractHighRiskCalls

NextUnit ==
    \/ AnalyzeTransactionPattern
    \/ DetectPatterns
    \/ CheckDecisionBias
    \/ GenerateResponsibleAiReport
    \/ CheckJurisdictionRisk
    \/ DetermineReportingRequirements
    \/ ExtractHighRisk

\* Direct calls of single methods, one call per behaviour.
SpecUnit == InitUnit /\ [][NextUnit]_vars

\* ------------------------------------------------------------------------
\* Properties
\* ------------------------------------------------------------------------

\* The references of the run dicts created so far.
Refs == 1..Len(heap)

\* The history entries made from the run dict at reference r.
EntriesOf(history, r) == {i \in 1..Len(history) : history[i].stages_ref = r}

\* The call that takes the step, if any: every statement moves one pc.
Acting(t) == pc'[t] # pc[t]

\* C1: when an unexpected exception escapes a stage (the TypeError of
\* _extract_entities), the run has status FAILED with the error recorded and
\* the run is appended to the history as an entry whose status is FAILED.
C1_FailedRunAppended ==
    \A t \in Callers :
        (pc[t] = "raised" /\ exc[t] = "TypeError") =>
            /\ heap[my_run[t]].status = "FAILED"
            /\ heap[my_run[t]].error = "TypeError"
            /\ \E i \in EntriesOf(analysis_history, my_run[t]) :
                   analysis_history[i].status = "FAILED"

\* The stages the results of a call say failed: each carries an "error".
FailedStages(t) ==
    {s \in Stages :
        LET res == CASE s = "forensic" -> forensic_results[t]
                     [] s = "compliance" -> compliance_results[t]
                     [] s = "bias_check" -> Unbound
                     [] s = "report" -> report_results[t]
        IN  res # Unbound /\ res.error # Absent}

\* C2: when the agent call of a stage raised inside the stage, the stage
\* result recorded for that stage has status ERROR, and the call still runs
\* the following stages and returns.
C2_FailedStageRecordedAsError ==
    \A t \in Callers :
        \A s \in FailedStages(t) :
            heap[my_run[t]].stages[s].present =>
                heap[my_run[t]].stages[s].status = "ERROR"

\* C3: COMPLETED and FAILED are terminal: a run dict whose status is
\* COMPLETED or FAILED keeps that status in every later step.
C3_TerminalStatus ==
    [][\A r \in Refs :
          heap[r].status \in {"COMPLETED", "FAILED"} => heap'[r].status = heap[r].status]_vars

\* C4: with interleaved calls, a call writes (stage results, status) only
\* into the run dict it created, and the report it returns is the one of its
\* own run: id, transaction count and stage results.
C4_CallsOwnTheirRun ==
    [][\A t \in Callers :
          Acting(t) =>
              /\ \A r \in Refs : heap'[r] # heap[r] => r = my_run[t]
              /\ pc'[t] = "returned" =>
                     returned'[t] = compile_final_results(heap'[my_run[t]])]_vars

\* C5: the history is append-only: its length never decreases, an entry
\* once appended, its stage results included, never changes, and every call
\* that returned has exactly one entry for its run (for the calls that
\* raised see C1).
C5_HistoryAppendOnly ==
    [][/\ Len(analysis_history') >= Len(analysis_history)
       /\ \A i \in 1..Len(analysis_history) :
             /\ analysis_history'[i] = analysis_history[i]
             /\ heap'[analysis_history[i].stages_ref].stages
                    = heap[analysis_history[i].stages_ref].stages
       /\ \A t \in Callers :
             pc'[t] = "returned" =>
                 Cardinality(EntriesOf(analysis_history', my_run'[t])) = 1]_vars

\* C6: the callback has no effect on control flow: a call raises only when
\* it raises without any callback too, which is when _extract_entities does.
C6_CallbackHasNoEffect ==
    \A t \in Callers : pc[t] = "raised" => EntitiesRaise(transactions[t])

\* The four stages in pipeline order.
StageOrder == << "forensic", "compliance", "bias_check", "report" >>

\* The stages recorded in a run dict.
Recorded(run) == {s \in Stages : run.stages[s].present}

\* C7: in every run the recorded stages are a prefix of forensic,
\* compliance, bias_check, report, and a COMPLETED run has all four.
C7_StagesInOrder ==
    \A r \in Refs :
        /\ \E k \in 0..Len(StageOrder) : Recorded(heap[r]) = {StageOrder[i] : i \in 1..k}
        /\ heap[r].status = "COMPLETED" => Recorded(heap[r]) = Stages

C7_Witness ==
    \E r \in Refs :
        /\ heap[r].status = "COMPLETED"
        /\ Recorded(heap[r]) = Stages
        /\ Len(analysis_history) = 1
        /\ \E q \in Refs : Recorded(heap[q]) = {"forensic", "compliance"}

\* The names of the documents the backend returned for the entities whose
\* query did not fail, in entity order, without the nameless ones.
RECURSIVE NamesObtained(_)
NamesObtained(as) ==
    IF as = <<>> THEN <<>>
    ELSE (IF Head(as) = ProviderFails THEN <<>>
          ELSE LET named == SelectSeq(Head(as), LAMBDA d : d.name \notin {AbsentStr, <<>>})
               IN  [i \in 1..Len(named) |-> named[i].name])
         \o NamesObtained(Tail(as))

\* The screening of a call took place against the backend.
Screened(t) ==
    /\ cfg.search_client
    /\ compliance_results[t] # Unbound
    /\ compliance_results[t].error = Absent

\* C8: when the backend fails for an entity, the screening goes on: the
\* compliance result holds the matches of the entities whose query
\* succeeded, and compliance_status is REVIEW_NEEDED exactly when there are
\* such matches.
C8_ScreeningSurvivesProviderFailure ==
    \A t \in Callers :
        Screened(t) =>
            LET sm == compliance_results[t].sanctions_matches
            IN  /\ [i \in 1..Len(sm) |-> sm[i].name] = NamesObtained(answers[t])
                /\ compliance_results[t].compliance_status
                       = IF NamesObtained(answers[t]) # <<>> THEN "REVIEW_NEEDED" ELSE "PASSED"

C8_Witness ==
    \E t \in Callers :
        /\ Screened(t)
        /\ Len(answers[t]) = 2
        /\ answers[t][1] = ProviderFails
        /\ compliance_results[t].sanctions_matches # <<>>
        /\ compliance_results[t].compliance_status = "REVIEW_NEEDED"

\* C9: the high-risk list and the structuring patterns of a run are those
\* the rules give for the batch, whatever forensic_agent.analyze did.
C9_RulesIndependentOfLlm ==
    \A t \in Callers :
        (forensic_results[t] # Unbound /\ ~RulesRaise(transactions[t])) =>
            /\ forensic_results[t].high_risk_transactions
                   = extract_high_risk(transactions[t])
            /\ forensic_results[t].patterns_detected = detect_patterns(transactions[t])

\* C10, as stated: for the end-to-end batch the summary reports 2 high-risk
\* transactions, overall risk level HIGH and requires_manual_review.
C10_EndToEndHigh ==
    \A t \in Callers :
        (pc[t] = "returned" /\ transactions[t] = BatchEndToEnd) =>
            /\ returned[t].summary.high_risk_transactions = 2
            /\ returned[t].summary.overall_risk_level = "HIGH"
            /\ returned[t].summary.requires_manual_review

\* C10, amended: for the end-to-end batch the summary reports no pattern
\* and no match; when forensic_agent.analyze returned it reports 2
\* high-risk transactions, overall risk level MEDIUM and
\* requires_manual_review, and when it raised it reports 0 high-risk
\* transactions, LOW and no manual review.
C10_EndToEndMedium ==
    \A t \in Callers :
        (pc[t] = "returned" /\ transactions[t] = BatchEndToEnd) =>
            /\ returned[t].summary.suspicious_patterns = 0
            /\ returned[t].summary.sanctions_matches = 0
            /\ IF forensic_results[t].error = Absent
               THEN /\ returned[t].summary.high_risk_transactions = 2
                    /\ returned[t].summary.overall_risk_level = "MEDIUM"
                    /\ returned[t].summary.requires_manual_review
               ELSE /\ returned[t].summary.high_risk_transactions = 0
                    /\ returned[t].summary.overall_risk_level = "LOW"
                    /\ ~returned[t].summary.requires_manual_review

C10_Witness ==
    \E t \in Callers :
        /\ pc[t] = "returned"
        /\ transactions[t] = BatchEndToEnd
        /\ forensic_results[t].error = Absent
        /\ returned[t].summary.overall_risk_level = "MEDIUM"
        /\ returned[t].summary.high_risk_transactions = 2

\* The numbers of sanctions matches, structuring patterns and high-risk
\* transactions in the stage results a report carries.
MatchesIn(report) == Len(report.compliance_evaluation.sanctions_matches)
PatternsIn(report) == Len(report.forensic_analysis.patterns_detected)
HighRiskIn(report) == Len(report.forensic_analysis.high_risk_transactions)

\* C11: in a returned report the overall risk level is HIGH exactly when the
\* run has a sanctions match or a structuring pattern, MEDIUM exactly when
\* it has neither but has a high-risk transaction, LOW otherwise, and
\* requires_manual_review is true exactly when the level is HIGH or MEDIUM.
C11_RiskLevelRule ==
    \A t \in Callers :
        pc[t] = "returned" =>
            LET rep == returned[t]
                level == rep.summary.overall_risk_level
                alert == MatchesIn(rep) > 0 \/ PatternsIn(rep) > 0
            IN  /\ level \in {"HIGH", "MEDIUM", "LOW"}
                /\ level = "HIGH" <=> alert
                /\ level = "MEDIUM" <=> (~alert /\ HighRiskIn(rep) > 0)
                /\ level = "LOW" <=> (~alert /\ HighRiskIn(rep) = 0)
                /\ rep.summary.requires_manual_review <=> level \in {"HIGH", "MEDIUM"}

\* A returned report that is HIGH by a structuring pattern alone.
C11_Witness ==
    \E t \in Callers :
        /\ pc[t] = "returned"
        /\ PatternsIn(returned[t]) > 0
        /\ MatchesIn(returned[t]) = 0
        /\ returned[t].summary.overall_risk_level = "HIGH"
        /\ returned[t].summary.requires_manual_review

\* C12: for every amount a with 9000 <= a < 10000,
\* _analyze_transaction_pattern yields risk_score >= 4 and requires_review
\* true.
C12_JustBelowThresholdReviewed ==
    (/\ call.method = "_analyze_transaction_pattern"
     /\ result # Unbound
     /\ call.amount.tag = "num"
     /\ 9000 <= call.amount.v /\ call.amount.v < 10000) =>
        /\ ~result.error
        /\ result.risk_score >= 4
        /\ result.requires_review

\* The positions of an account's transactions in a batch, and the total of
\* the amounts at a set of positions.
PositionsOf(batch, account) == {i \in 1..Len(batch) : AccountOf(batch[i]) = account}

RECURSIVE TotalAt(_, _)
TotalAt(batch, positions) ==
    IF positions = {} THEN 0
    ELSE LET i == CHOOSE j \in positions : TRUE
         IN  AmountOf(batch[i]) + TotalAt(batch, positions \ {i})

\* The claim's condition for an account of a batch.
StructuringExpected(batch, account) ==
    /\ Cardinality(PositionsOf(batch, account)) >= 3
    /\ TotalAt(batch, PositionsOf(batch, account)) > 10000
    /\ \A i \in PositionsOf(batch, account) : AmountOf(batch[i]) < 10000

\* C13: _detect_patterns emits a pattern for an account exactly when the
\* account has at least 3 transactions, their total exceeds 10000 and each
\* is below 10000; at most one pattern per account, with the account's
\* total and transaction count, and severity HIGH.
C13_StructuringExactlyWhen ==
    (call.method = "_detect_patterns" /\ result # Unbound) =>
        LET batch == call.transactions
            ps == result.patterns
        IN  /\ \A a \in {"A1", "unknown"} :
                   LET mine == {k \in 1..Len(ps) : ps[k].account = a}
                   IN  /\ Cardinality(mine) = (IF StructuringExpected(batch, a) THEN 1 ELSE 0)
                       /\ \A k \in mine :
                              /\ ps[k].total_amount = TotalAt(batch, PositionsOf(batch, a))
                              /\ ps[k].transaction_count = Cardinality(PositionsOf(batch, a))
            /\ \A k \in 1..Len(ps) :
                   /\ ps[k].account \in {"A1", "unknown"}
                   /\ ps[k].severity = "HIGH"
                   /\ ps[k].type = "POTENTIAL_STRUCTURING"

\* [9000, 8500, 9500] on one account, with a transaction without account
\* in the batch: one pattern, total 27000, count 3.
C13_Witness ==
    /\ call.method = "_detect_patterns"
    /\ result # Unbound
    /\ Len(call.transactions) = 4
    /\ [i \in 1..3 |-> AmountOf(call.transactions[i])] = <<9000, 8500, 9500>>
    /\ \A i \in 1..3 : AccountOf(call.transactions[i]) = "A1"
    /\ AccountOf(call.transactions[4]) = "unknown"
    /\ Len(result.patterns) = 1
    /\ result.patterns[1].total_amount = 27000
    /\ result.patterns[1].transaction_count = 3

\* The stages of a report whose results carry an error diagnostic.
DiagnosedStages(report) ==
    {s \in Stages :
        CASE s = "forensic" -> report.forensic_analysis.error # Absent
          [] s = "compliance" -> report.compliance_evaluation.error # Absent
          [] s = "bias_check" ->
                 \E i \in 1..Len(report.responsible_ai.detailed_checks) :
                     report.responsible_ai.detailed_checks[i].content_safety.error
          [] s = "report" -> report.audit_report.error # Absent}

\* A query of the sanctions backend failed during the call.
SearchFailed(t) ==
    cfg.search_client /\ \E i \in 1..Len(answers[t]) : answers[t][i] = ProviderFails

\* C14: no silent partial result: when a stage or a provider call failed
\* during a call that returned, the report carries an error diagnostic, and
\* for a failed sanctions query the diagnostic is in the compliance stage.
C14_NoSilentPartialResult ==
    \A t \in Callers :
        pc[t] = "returned" =>
            /\ faults > 0 => DiagnosedStages(returned[t]) # {}
            /\ SearchFailed(t) => "compliance" \in DiagnosedStages(returned[t])

\* C15: the report returned by a completed run carries the hash pair: a
\* hash_algorithm field equal to SHA-256 and a hash_value field.
C15_ReportCarriesHash ==
    \A t \in Callers :
        (pc[t] = "returned" /\ returned[t].status = "COMPLETED") =>
            /\ {"hash_algorithm", "hash_value"} \subseteq DOMAIN returned[t]
            /\ returned[t].hash_algorithm = "SHA-256"

\* The backend's answer of a call to the query for entity e.
AnswerFor(t, e) == answers[t][CHOOSE i \in 1..Len(entities[t]) : entities[t][i] = e]

\* The sanctions matches a call would have collected had the entity set
\* been iterated in the order `order`, with the same answer per entity.
MatchesInOrder(t, order) ==
    sanctions_loop(cfg.search_client, order,
                   [j \in 1..Len(order) |-> AnswerFor(t, order[j])])

\* C16: the sequence of sanctions matches of a run, and of the decisions
\* built from them, is the one every iteration order of the entities gives
\* for the same batch and the same provider responses.
C16_MatchesInStableOrder ==
    \A t \in Callers :
        (/\ compliance_results[t] # Unbound
         /\ compliance_results[t].error = Absent) =>
            \A order \in extract_entities(transactions[t]) :
                /\ compliance_results[t].sanctions_matches = MatchesInOrder(t, order)
                /\ prepare_decisions_for_bias_check(forensic_results[t], compliance_results[t])
                       = prepare_decisions_for_bias_check(
                             forensic_results[t],
                             [compliance_results[t] EXCEPT
                                  !.sanctions_matches = MatchesInOrder(t, order)])

\* Both calls have returned, for the same batch, and the search backend
\* gave the same answer per entity in both.
SameRunTwice ==
    /\ pc[1] = "returned" /\ pc[2] = "returned"
    /\ transactions[1] = transactions[2]
    /\ \A e \in EntitySet(transactions[1]) : AnswerFor(1, e) = AnswerFor(2, e)

\* C17: two runs on an identical batch with deterministic providers return
\* an identical summary and an identical report hash.
C17_TwiceSameSummaryAndHash ==
    SameRunTwice =>
        /\ returned[1].summary = returned[2].summary
        /\ "hash_value" \in DOMAIN returned[1]
        /\ "hash_value" \in DOMAIN returned[2]
        /\ returned[1].hash_value = returned[2].hash_value

\* The number of indicators of one severity among those of a check.
IndicatorsOf(check, severity) ==
    Cardinality({i \in 1..Len(check.bias_indicators) :
                    check.bias_indicators[i].severity = severity})

\* The safety classification of a check says unsafe.
ClassifiedUnsafe(check) == ~check.content_safety.error /\ ~check.content_safety.is_safe

\* The status the precedence of C18 gives a check.
StatusByPrecedence(check) ==
    IF IndicatorsOf(check, "high") >= 1 THEN "REVIEW_REQUIRED"
    ELSE IF IndicatorsOf(check, "medium") >= 2 THEN "CAUTION"
    ELSE IF ClassifiedUnsafe(check) THEN "CONTENT_SAFETY_ISSUE"
    ELSE "PASSED"

\* C18: the bias status of a decision is REVIEW_REQUIRED with a high
\* indicator, else CAUTION with two medium indicators, else
\* CONTENT_SAFETY_ISSUE when the classification is unsafe, else PASSED;
\* low indicators do not enter.
C18_BiasStatusPrecedence ==
    (call.method = "check_decision_bias" /\ result # Unbound) =>
        result.overall_assessment.status = StatusByPrecedence(result)

\* A check with a high and two medium indicators and an unsafe
\* classification: REVIEW_REQUIRED.
C18_Witness ==
    /\ call.method = "check_decision_bias"
    /\ result # Unbound
    /\ IndicatorsOf(result, "high") = 1
    /\ IndicatorsOf(result, "medium") = 2
    /\ IndicatorsOf(result, "low") = 1
    /\ ClassifiedUnsafe(result)
    /\ result.overall_assessment.status = "REVIEW_REQUIRED"

\* The decisions the bias stage of a call audits.
DecisionsOf(t) ==
    prepare_decisions_for_bias_check(forensic_results[t], compliance_results[t])

\* C19: the decisions audited are one per high-risk transaction followed by
\* one per sanctions match, or the single NO_ALERTS decision when there is
\* neither, and total_decisions_reviewed is their number, at least 1.
C19_BiasBatchNonEmpty ==
    \A t \in Callers :
        bias_check_results[t] # Unbound =>
            LET hr == forensic_results[t].high_risk_transactions
                sm == compliance_results[t].sanctions_matches
                ds == DecisionsOf(t)
            IN  /\ Len(ds) = (IF Len(hr) + Len(sm) = 0 THEN 1 ELSE Len(hr) + Len(sm))
                /\ \A i \in 1..Len(hr) :
                       /\ ds[i].decision_type = "RISK_ASSESSMENT"
                       /\ ds[i].transaction_id = hr[i].txn.id
                /\ \A j \in 1..Len(sm) :
                       /\ ds[Len(hr) + j].decision_type = "SANCTIONS_MATCH"
                       /\ ds[Len(hr) + j].entity = sm[j].name
                /\ Len(hr) + Len(sm) = 0 => ds[1].decision_type = "NO_ALERTS"
                /\ bias_check_results[t].total_decisions_reviewed = Len(ds)
                /\ Len(bias_check_results[t].detailed_checks) = Len(ds)
                /\ bias_check_results[t].total_decisions_reviewed >= 1

\* A run with one high-risk transaction and two sanctions matches: three
\* decisions audited.
C19_Witness ==
    \E t \in Callers :
        /\ bias_check_results[t] # Unbound
        /\ Len(forensic_results[t].high_risk_transactions) = 1
        /\ Len(compliance_results[t].sanctions_matches) = 2
        /\ bias_check_results[t].total_decisions_reviewed = 3

\* The number of checks of a bias report with a status.
ChecksWith(report, status) ==
    Cardinality({i \in 1..Len(report.detailed_checks) :
                    report.detailed_checks[i].overall_assessment.status = status})

\* passed, review_required and caution count the checks with those
\* statuses, and the total is the number of decisions.
CountsAreRight(report, decisions) ==
    /\ report.total_decisions_reviewed = Len(decisions)
    /\ Len(report.detailed_checks) = Len(decisions)
    /\ report.summary.passed = ChecksWith(report, "PASSED")
    /\ report.summary.review_required = ChecksWith(report, "REVIEW_REQUIRED")
    /\ report.summary.caution = ChecksWith(report, "CAUTION")

\* C20, as stated: the counts are right, pass_rate (in hundredths of a
\* percent) is between 0 and 100, is 0 for the empty batch, and is 100
\* exactly when every decision passed.
C20_PassRateExact ==
    (call.method = "generate_responsible_ai_report" /\ result # Unbound) =>
        LET total == result.total_decisions_reviewed
            passed == result.summary.passed
            rate == result.summary.pass_rate
        IN  /\ CountsAreRight(result, call.decisions)
            /\ 0 <= rate /\ rate <= 10000
            /\ total = 0 => rate = 0
            /\ total > 0 => (rate = 10000 <=> passed = total)

\* C20, amended: the counts are right, pass_rate is passed / total x 100
\* rounded to two decimals (0 for the empty batch), between 0 and 100, and
\* 100 when every decision passed; pass_rate 100 means that at most one
\* decision in 20000 did not pass.
C20_PassRateRounded ==
    (call.method = "generate_responsible_ai_report" /\ result # Unbound) =>
        LET total == result.total_decisions_reviewed
            passed == result.summary.passed
            rate == result.summary.pass_rate
            off == rate * total - passed * 10000
        IN  /\ CountsAreRight(result, call.decisions)
            /\ 0 <= rate /\ rate <= 10000
            /\ total = 0 => rate = 0
            /\ total > 0 => /\ -total <= 2 * off /\ 2 * off <= total
                            /\ passed = total => rate = 10000
                            /\ rate = 10000 => 20000 * (total - passed) <= total

\* 20000 of 20001 decisions passed and the pass rate is 100.00.
C20_Witness ==
    /\ call.method = "generate_responsible_ai_report"
    /\ result # Unbound
    /\ result.total_decisions_reviewed = 20001
    /\ result.summary.passed = 20000
    /\ result.summary.caution = 1
    /\ result.summary.pass_rate = 10000

\* The terms named for the HIGH level and for the MEDIUM level.
HighTerms == { <<"i", "r">>, <<"k", "p">>, <<"s", "y">>, <<"i", "r", "a", "n">>, <<"n", "o", "r", "t", "h", " ", "k", "o", "r", "e", "a">>, <<"s", "y", "r", "i", "a">> }
MediumTerms == { <<"r", "u">>, <<"b", "y">>, <<"r", "u", "s", "s", "i", "a">>, <<"b", "e", "l", "a", "r", "u", "s">>, <<"c", "a", "y", "m", "a", "n", " ", "i", "s", "l", "a", "n", "d", "s">>, <<"p", "a", "n", "a", "m", "a">> }

\* A string holds one of a set of terms.
HoldsAny(terms, s) == \E term \in terms : StrIn(term, s)

\* C21: the jurisdiction risk is HIGH when the lower-cased input holds a
\* term of the HIGH set, otherwise MEDIUM when it holds a term of the
\* MEDIUM set, otherwise LOW; HIGH wins when both sets match; Iran is HIGH
\* and United States is LOW.
C21_JurisdictionLevels ==
    (call.method = "check_jurisdiction_risk" /\ result # Unbound) =>
        LET s == Lower(call.jurisdiction)
        IN  /\ result.jurisdiction = call.jurisdiction
            /\ HoldsAny(HighTerms, s) => result.risk_level = "HIGH"
            /\ (~HoldsAny(HighTerms, s) /\ HoldsAny(MediumTerms, s))
                    => result.risk_level = "MEDIUM"
            /\ (~HoldsAny(HighTerms, s) /\ ~HoldsAny(MediumTerms, s))
                    => result.risk_level = "LOW"
            /\ call.jurisdiction = <<"I", "r", "a", "n">> => result.risk_level = "HIGH"
            /\ call.jurisdiction = <<"U", "n", "i", "t", "e", "d", " ", "S", "t", "a", "t", "e", "s">> => result.risk_level = "LOW"

\* A jurisdiction holding terms of both sets was classified HIGH.
C21_Witness ==
    /\ call.method = "check_jurisdiction_risk"
    /\ result # Unbound
    /\ call.jurisdiction = <<"S", "y", "r", "i", "a", " ", "v", "i", "a", " ", "R", "u", "s", "s", "i", "a">>
    /\ HoldsAny(MediumTerms, Lower(call.jurisdiction))
    /\ result.risk_level = "HIGH"

\* The report types of the requirements a reporting determination emitted.
Emitted(res) ==
    {res.reporting_requirements[i].report_type : i \in 1..Len(res.reporting_requirements)}

\* The amount of the transaction of a call, 0 when it has none.
AmountGiven(txn) == IF txn.amount = AbsentAmount THEN 0 ELSE txn.amount.v

\* The type of the transaction of a call names cash, in any case.
NamesCash(txn) == txn.type # AbsentStr /\ StrIn(<<"c", "a", "s", "h">>, Lower(txn.type))

\* C22: a reporting determination emits a CTR requirement exactly when
\* amount >= 10000 and the transaction type contains 'cash', a SAR
\* requirement exactly when the suspicious flag is set or amount >= 5000,
\* each at most once, and requires_action is true exactly when at least
\* one requirement was emitted.
C22_ReportingRequirements ==
    (call.method = "determine_reporting_requirements" /\ result # Unbound) =>
        LET txn == call.transaction
        IN  /\ "CTR" \in Emitted(result)
                    <=> (AmountGiven(txn) >= 10000 /\ NamesCash(txn))
            /\ "SAR" \in Emitted(result)
                    <=> (txn.suspicious = "True" \/ AmountGiven(txn) >= 5000)
            /\ Emitted(result) \subseteq {"CTR", "SAR"}
            /\ Len(result.reporting_requirements) = Cardinality(Emitted(result))
            /\ result.requires_action <=> Len(result.reporting_requirements) > 0

\* A cash deposit of 15000 called for a CTR and a SAR, as in the test.
C22_Witness ==
    /\ call.method = "determine_reporting_requirements"
    /\ result # Unbound
    /\ call.transaction.amount = Num(15000)
    /\ call.transaction.type = <<"c", "a", "s", "h", "_", "d", "e", "p", "o", "s", "i", "t">>
    /\ call.transaction.suspicious = Absent
    /\ Emitted(result) = {"CTR", "SAR"}
    /\ result.requires_action

\* C23: a transaction whose amount is missing or is not a number counts as
\* amount 0 and is still scored, and the high-risk list of the batch holds
\* every transaction whose rule total, with such an amount taken as 0,
\* reaches 5 (for the runs whose forensic agent returned).
C23_MalformedAmountStillScored ==
    \A t \in Callers :
        (forensic_results[t] # Unbound /\ forensic_results[t].error # "agent error") =>
            \A i \in 1..Len(transactions[t]) :
                RiskOf(transactions[t][i]).risk_score >= 5 =>
                    \E k \in 1..Len(forensic_results[t].high_risk_transactions) :
                        forensic_results[t].high_risk_transactions[k].txn = transactions[t][i]

\* The positions of a batch whose rule total reaches 5.
Qualifying(batch) == {i \in 1..Len(batch) : RiskOf(batch[i]).risk_score >= 5}

\* The transactions of a list of high-risk entries, in order.
ListedTxns(entries) == [k \in 1..Len(entries) |-> entries[k].txn]

\* C24: every reported risk score lies in 0..10; _analyze_transaction_pattern
\* returns requires_review = true exactly when its reported risk_score
\* is >= 5; _extract_high_risk lists exactly the transactions whose rule
\* total is >= 5, in batch order, each with a risk_score between 5 and 10
\* and a non-empty list of reasons.
C24_ScoreRangeAndThreshold ==
    /\ (call.method = "_analyze_transaction_pattern" /\ result # Unbound /\ ~result.error) =>
            /\ result.risk_score \in 0..10
            /\ result.requires_review <=> result.risk_score >= 5
    /\ (call.method = "_extract_high_risk" /\ result # Unbound) =>
            LET batch == call.transactions
                listed == result.high_risk_transactions
            IN  /\ ListedTxns(listed)
                      = SelectSeq(batch, LAMBDA txn : RiskOf(txn).risk_score >= 5)
                /\ Len(listed) = Cardinality(Qualifying(batch))
                /\ \A k \in 1..Len(listed) :
                      /\ listed[k].risk_score \in 5..10
                      /\ listed[k].risk_reasons # <<>>

\* A batch of a transaction with rule total 12, listed with score 10, and
\* of a transaction with rule total 2, not listed.
C24_Witness ==
    /\ call.method = "_extract_high_risk"
    /\ result # Unbound
    /\ Len(call.transactions) = 2
    /\ RiskOf(call.transactions[1]).risk_score = 12
    /\ RiskOf(call.transactions[2]).risk_score = 2
    /\ Len(result.high_risk_transactions) = 1
    /\ result.high_risk_transactions[1].risk_score = 10

\* C25: requires_manual_review is false only when the compliance_status of
\* the run is PASSED: a returned report whose compliance stage ended with
\* status ERROR or UNKNOWN is flagged for manual review.
C25_ErrorMeansManualReview ==
    \A t \in Callers :
        (pc[t] = "returned" /\ ~returned[t].summary.requires_manual_review) =>
            returned[t].summary.compliance_status = "PASSED"

\* C26: every run in the analysis history has a distinct id: no two calls
\* of analyze_transactions on one orchestrator, one after the other,
\* produce runs with the same analysis id.
C26_DistinctAnalysisIds ==
    \A i, j \in 1..Len(analysis_history) :
        analysis_history[i].id = analysis_history[j].id => i = j

\* C27: a decision is given bias status PASSED only when the text-safety
\* classification for it succeeded and reported is_safe = true: a
\* classification that returned an error never leads to PASSED.
C27_PassedOnlyWhenClassified ==
    (call.method = "check_decision_bias" /\ result # Unbound) =>
        (result.overall_assessment.status = "PASSED" =>
            /\ ~result.content_safety.error
            /\ result.content_safety.is_safe)

\* C28: in every bias report the three status counters partition the
\* batch: passed + review_required + caution equals
\* total_decisions_reviewed.
C28_CountersPartitionBatch ==
    (call.method = "generate_responsible_ai_report" /\ result # Unbound) =>
        result.summary.passed + result.summary.review_required + result.summary.caution
            = result.total_decisions_reviewed

\* C29: the two jurisdiction rules agree: a country value earns the
\* high-risk-jurisdiction bonus in _extract_high_risk exactly when
\* _check_jurisdiction_risk classifies the same value as HIGH.
C29_JurisdictionRulesAgree ==
    (call.method = "check_jurisdiction_risk" /\ result # Unbound) =>
        (JurisdictionRule(Lower(call.jurisdiction)).score > 0
            <=> result.risk_level = "HIGH")

\* The entities of a call that have a name to screen.
NamedEntities(t) == SelectSeq(entities[t], LAMBDA e : e # <<>>)

\* C30: an entity whose name is the empty string never produces a
\* sanctions match: screened against the mock sanctions list, a batch has
\* the matches of its non-empty names and no others, so the empty name
\* does not add to the sanctions count of the summary.
C30_EmptyNameNeverMatches ==
    \A t \in Callers :
        (pc[t] = "returned" /\ ~cfg.search_client
            /\ returned[t].compliance_evaluation.error = Absent) =>
            /\ returned[t].compliance_evaluation.sanctions_matches
                   = sanctions_loop(FALSE, NamedEntities(t), NamedEntities(t))
            /\ returned[t].summary.sanctions_matches
                   = Len(sanctions_loop(FALSE, NamedEntities(t), NamedEntities(t)))

=============================================================================
